---- MODULE Spec2Model ----
(***************************************************************************)
(* State-machine model of the inspection node-lookup engine                *)
(* (ironic/drivers/modules/inspect_utils.py), of the inspection-rule REST  *)
(* controller (ironic/api/controllers/v1/inspection_rule.py), of the       *)
(* runbook REST controller (ironic/api/controllers/v1/runbook.py), of the  *)
(* Kea DHCP client (ironic/dhcp/kea.py) and of the rule evaluation engine  *)
(* of section 4.4 of the specification.                                    *)
(*                                                                         *)
(* Ten specifications share the variables:                                 *)
(*   SpecLookup  lookup_node, one storage read per step, interleaved with  *)
(*               the other actors that change the fleet records;           *)
(*   SpecRule    InspectionRuleController._route, post and delete, and the *)
(*               validators;                                               *)
(*   SpecPath    _parse_path applied to bounded field strings;             *)
(*   SpecRunbook RunbooksController.post, patch and delete, and the        *)
(*               duplicate_steps validator;                                *)
(*   SpecApi     the create, update and delete requests of both            *)
(*               controllers, for the notifications around persistence;    *)
(*   SpecCache   cache_lookup_addresses on one node after another;         *)
(*   SpecRequest KeaDHCPApi._make_request, one attempt per step, with the  *)
(*               fairness of its loop;                                     *)
(*   SpecKea     update_dhcp_opts and clean_dhcp_opts of one caller, every *)
(*               outcome of every HTTP attempt;                            *)
(*   SpecKeaRace update_port_dhcp_opts of two callers on one server;       *)
(*   SpecEngine  one evaluation of a stored rule list on a node record and *)
(*               an inventory, one condition or action per step.           *)
(***************************************************************************)
EXTENDS Naturals, Integers, Sequences, FiniteSets, TLC

(***************************************************************************)
(* Bounds and domains                                                      *)
(***************************************************************************)
\* Number of fleet records (node uuids 1..NumNodes; uuid 0 is "no node").
NumNodes == 2

Nodes == 1..NumNodes

\* Port (MAC) addresses and BMC addresses a reporting machine may send.
MacAddrs == {"mac1"}

BmcAddrs == {"bmc1", "bmc2"}

\* states.INSPECTWAIT and one of the other provision states.
INSPECTWAIT == "inspect wait"

MANAGEABLE == "manageable"

\* Python's None for a node object / a node uuid.
NoNode == [uuid |-> 0, provision_state |-> "None"]

VARIABLES
    \* ---- fleet records (persistence) ----
    nodes,          \* uuid -> [exists, provision_state, driver_internal_info],
                    \* driver_internal_info being its lookup_bmc_addresses
    ports,          \* MAC address -> owning node uuid, 0 when no such port
    \* ---- one lookup_node call ----
    pc,             \* "idle", "L245", "L279", "L320", "done"
    call,           \* the arguments as given by the caller
    node_uuid,      \* the local node_uuid (reassigned at line 320)
    node,           \* the local node (NoNode for None)
    nodes_by_bmc,   \* the local set nodes_by_bmc
    result,         \* what the call returned or raised
    mac_node,       \* what Node.get_by_port_addresses returned to this call
    stage,          \* the last part of lookup_node this call executed
    interfered,     \* a fleet record changed while this call was running
    \* ---- inspection rules (persistence) and one API request ----
    rules,          \* the stored rules: records [uuid, conditions, actions]
    request,        \* the request being answered: [handler, body]
    response,       \* its outcome: [exc, value]
    notifications,  \* the notifications the request emitted, in order
    trace,          \* what the handler did: validator outcomes, create()
    db_calls,       \* the persistence operations the request called, in order
    events,         \* those calls and the notifications, in program order
    \* ---- runbooks (persistence) ----
    runbooks,       \* the stored runbooks: [uuid, owner, public, steps]
    runbooks_before, \* the stored runbooks when the request came in
    \* ---- _parse_path ----
    field,          \* the field string given to _parse_path
    parsed,         \* the (scheme, path) it returned
    field_check,    \* what _validate_conditions made of a condition on field
    \* ---- the Kea DHCP server and the calls of KeaDHCPApi ----
    kea,            \* the server's Dhcp4 reservations, a list
    kcalls,         \* caller -> the KeaDHCPApi call it is in, with its locals
    \* ---- one node of cache_lookup_addresses ----
    bmc_node,       \* its driver_info, bridging and driver_internal_info
    \* ---- one evaluation of the stored rules on a record ----
    engine          \* the record, the plugin data and what was executed

lookupVars == <<nodes, ports, pc, call, node_uuid, node, nodes_by_bmc,
                result, mac_node, stage, interfered>>

ruleVars == <<rules, request, response, notifications, trace, db_calls,
              events>>

pathVars == <<field, parsed, field_check>>

runbookVars == <<runbooks, runbooks_before>>

keaVars == <<kea, kcalls>>

sideVars == <<keaVars, bmc_node, engine>>

vars == <<lookupVars, ruleVars, pathVars, runbookVars, sideVars>>

(***************************************************************************)
(* Exceptions                                                              *)
(***************************************************************************)
\* exception.NotFound() built by lookup_node itself: the generic message.
GenericNotFound == [cls |-> "NotFound", detail |-> 0]

\* What the storage layer raises for a missing node: a NotFound subclass
\* whose message names the uuid that was asked for.
NodeNotFound(uuid) == [cls |-> "NodeNotFound", detail |-> uuid]

NoCall == [mac_addresses |-> {}, bmc_addresses |-> {}, node_uuid |-> 0]

NoResult == [kind |-> "none", node |-> NoNode, exc |-> GenericNotFound]

Returned(n) == [kind |-> "return", node |-> n, exc |-> GenericNotFound]

Raised(e) == [kind |-> "raise", node |-> NoNode, exc |-> e]

(***************************************************************************)
(* Persistence port: objects.Node                                          *)
(***************************************************************************)
NodeObject(u) == [uuid |-> u, provision_state |-> nodes[u].provision_state]

\* objects.Node.get_by_uuid: the node object, or NoNode when it raises.
Node_get_by_uuid(u) ==
    IF u \in Nodes /\ nodes[u].exists THEN NodeObject(u) ELSE NoNode

\* objects.Node.get_by_port_addresses: the possible outcomes.  The node must
\* own a port with one of the addresses; NoNode stands for NotFound.  With
\* ports of several nodes matching, the storage layer may pick any owner or
\* refuse.
Node_get_by_port_addresses(macs) ==
    LET owners == {ports[m] : m \in macs} \ {0}
    IN  IF owners = {} THEN {NoNode}
        ELSE {NodeObject(o) : o \in owners}
             \cup (IF Cardinality(owners) > 1 THEN {NoNode} ELSE {})

\* objects.Node.list(filters={'provision_state': INSPECTWAIT}): the uuids.
Node_list(state) ==
    {u \in Nodes : nodes[u].exists /\ nodes[u].provision_state = state}

\* Lines 282-291: the candidates whose cached addresses meet bmc_addresses.
CollectNodesByBmc(bmc_addresses) ==
    {u \in Node_list(INSPECTWAIT) :
        \E addr \in nodes[u].driver_internal_info : addr \in bmc_addresses}

(***************************************************************************)
(* lookup_node, one storage read per step                                  *)
(***************************************************************************)
Finish(r) ==
    /\ pc' = "done"
    /\ result' = r

\* Lines 327-337: the final check.
FinalCheck(n) == IF n = NoNode THEN Raised(GenericNotFound) ELSE Returned(n)

\* Line 252: the record found by the MAC addresses is not the claimed one.
UuidMacConflict_NoCheck(found, uuid) == FALSE

UuidMacConflict(found, uuid) ==
    found # NoNode /\ uuid # 0 /\ found.uuid # uuid

\* Line 263: a resolved record that does not wait for inspection data.
WrongState(n) == n # NoNode /\ n.provision_state # INSPECTWAIT

\* Line 295: none of the BMC candidates is the record resolved so far.
BmcConflict_Never(n, by_bmc) == FALSE

BmcConflict_OnlyItself(n, by_bmc) ==
    n # NoNode /\ by_bmc # {} /\ by_bmc # {n.uuid}

BmcConflict(n, by_bmc) ==
    n # NoNode /\ by_bmc # {} /\ n.uuid \notin by_bmc

\* Line 310: several BMC candidates and no record to choose among them.
Ambiguous_OffByOne(by_bmc) == Cardinality(by_bmc) > 2

Ambiguous(by_bmc) == Cardinality(by_bmc) > 1

\* Lines 235-243: the call and the read by the claimed uuid.
lookup_node(mac_addresses, bmc_addresses, uuid) ==
    /\ pc = "idle"
    /\ call' = [mac_addresses |-> mac_addresses,
                bmc_addresses |-> bmc_addresses,
                node_uuid |-> uuid]
    /\ node_uuid' = uuid
    /\ nodes_by_bmc' = {}
    /\ mac_node' = NoNode
    /\ stage' = "uuid"
    /\ interfered' = FALSE
    /\ IF uuid # 0 /\ Node_get_by_uuid(uuid) = NoNode
       THEN /\ node' = NoNode
            /\ Finish(Raised(GenericNotFound))
       ELSE /\ node' = (IF uuid # 0 THEN Node_get_by_uuid(uuid) ELSE NoNode)
            /\ pc' = "L245"
            /\ result' = NoResult
    /\ UNCHANGED <<nodes, ports>>
    /\ UNCHANGED <<ruleVars, pathVars, sideVars, runbookVars>>

\* Lines 245-270: the read by port addresses, the uuid/MAC conflict check and
\* the provision-state check.
lookup_by_macs ==
    /\ pc = "L245"
    /\ \E found \in (IF call.mac_addresses # {}
                     THEN Node_get_by_port_addresses(call.mac_addresses)
                     ELSE {NoNode}) :
         LET n == IF found # NoNode THEN found ELSE node
         IN  /\ mac_node' = found
             /\ node' = n
             /\ IF UuidMacConflict(found, node_uuid)
                THEN Finish(Raised(GenericNotFound))
                ELSE IF WrongState(n)
                THEN Finish(Raised(GenericNotFound))
                ELSE /\ pc' = "L279"
                     /\ UNCHANGED result
    /\ stage' = "mac"
    /\ UNCHANGED <<nodes, ports, call, node_uuid, nodes_by_bmc, interfered>>
    /\ UNCHANGED <<ruleVars, pathVars, sideVars, runbookVars>>

\* Lines 279-320 (and 327-337 when no fetch follows): the candidate listing.
lookup_by_bmc ==
    /\ pc = "L279"
    /\ LET by_bmc == IF call.bmc_addresses # {}
                     THEN CollectNodesByBmc(call.bmc_addresses)
                     ELSE {}
       IN  /\ nodes_by_bmc' = by_bmc
           /\ IF BmcConflict(node, by_bmc)
              THEN /\ Finish(Raised(GenericNotFound))
                   /\ UNCHANGED node_uuid
              ELSE IF node = NoNode /\ by_bmc # {}
              THEN IF Ambiguous(by_bmc)
                   THEN /\ Finish(Raised(GenericNotFound))
                        /\ UNCHANGED node_uuid
                   ELSE /\ node_uuid' = CHOOSE u \in by_bmc : TRUE
                        /\ pc' = "L320"
                        /\ UNCHANGED result
              ELSE /\ Finish(FinalCheck(node))
                   /\ UNCHANGED node_uuid
    /\ stage' = "bmc"
    /\ UNCHANGED <<nodes, ports, call, node, mac_node, interfered>>
    /\ UNCHANGED <<ruleVars, pathVars, sideVars, runbookVars>>

\* Lines 321-337: the fetch of the single BMC candidate.
lookup_fetch ==
    /\ pc = "L320"
    /\ LET fetched == Node_get_by_uuid(node_uuid)
       IN  /\ node' = fetched
           /\ IF fetched = NoNode
              THEN Finish(Raised(NodeNotFound(node_uuid)))
              ELSE Finish(FinalCheck(fetched))
    /\ stage' = "fetch"
    /\ UNCHANGED <<nodes, ports, call, node_uuid, nodes_by_bmc, mac_node,
                   interfered>>
    /\ UNCHANGED <<ruleVars, pathVars, sideVars, runbookVars>>

\* The caller takes the result; the next call may start.
lookup_return ==
    /\ pc = "done"
    /\ pc' = "idle"
    /\ call' = NoCall
    /\ node_uuid' = 0
    /\ node' = NoNode
    /\ nodes_by_bmc' = {}
    /\ result' = NoResult
    /\ mac_node' = NoNode
    /\ stage' = "none"
    /\ interfered' = FALSE
    /\ UNCHANGED <<nodes, ports>>
    /\ UNCHANGED <<ruleVars, pathVars, sideVars, runbookVars>>

(***************************************************************************)
(* The other actors on the fleet records                                   *)
(***************************************************************************)
\* They run between the storage reads of a call; a finished call only waits
\* for its caller, so nothing is lost by letting them wait for the return.
Touch ==
    /\ pc # "done"
    /\ interfered' = (pc # "idle")

CreateNode(u) ==
    /\ ~nodes[u].exists
    /\ nodes' = [nodes EXCEPT ![u] = [exists |-> TRUE,
                                      provision_state |-> MANAGEABLE,
                                      driver_internal_info |-> {}]]
    /\ Touch
    /\ UNCHANGED <<ports, pc, call, node_uuid, node, nodes_by_bmc, result,
                   mac_node, stage>>
    /\ UNCHANGED <<ruleVars, pathVars, sideVars, runbookVars>>

CreatePort(m, u) ==
    /\ nodes[u].exists
    /\ ports[m] = 0
    /\ ports' = [ports EXCEPT ![m] = u]
    /\ Touch
    /\ UNCHANGED <<nodes, pc, call, node_uuid, node, nodes_by_bmc, result,
                   mac_node, stage>>
    /\ UNCHANGED <<ruleVars, pathVars, sideVars, runbookVars>>

\* Inspection start: cache_lookup_addresses stores the computed address set
\* (an empty one removes the field) and the node then waits for its data.
StartInspection(u, addresses) ==
    /\ nodes[u].exists
    /\ nodes[u].provision_state # INSPECTWAIT
    /\ nodes' = [nodes EXCEPT ![u].provision_state = INSPECTWAIT,
                              ![u].driver_internal_info = addresses]
    /\ Touch
    /\ UNCHANGED <<ports, pc, call, node_uuid, node, nodes_by_bmc, result,
                   mac_node, stage>>
    /\ UNCHANGED <<ruleVars, pathVars, sideVars, runbookVars>>

\* The inspection ends or is aborted: the node leaves INSPECTWAIT and
\* clear_lookup_addresses removes the cached addresses.
EndInspection(u) ==
    /\ nodes[u].exists
    /\ nodes[u].provision_state = INSPECTWAIT
    /\ nodes' = [nodes EXCEPT ![u].provision_state = MANAGEABLE,
                              ![u].driver_internal_info = {}]
    /\ Touch
    /\ UNCHANGED <<ports, pc, call, node_uuid, node, nodes_by_bmc, result,
                   mac_node, stage>>
    /\ UNCHANGED <<ruleVars, pathVars, sideVars, runbookVars>>

DestroyNode(u) ==
    /\ nodes[u].exists
    /\ nodes' = [nodes EXCEPT ![u] = [exists |-> FALSE,
                                      provision_state |-> MANAGEABLE,
                                      driver_internal_info |-> {}]]
    /\ ports' = [m \in MacAddrs |-> IF ports[m] = u THEN 0 ELSE ports[m]]
    /\ Touch
    /\ UNCHANGED <<pc, call, node_uuid, node, nodes_by_bmc, result, mac_node,
                   stage>>
    /\ UNCHANGED <<ruleVars, pathVars, sideVars, runbookVars>>

LookupInit ==
    /\ nodes = [u \in Nodes |-> [exists |-> FALSE,
                                 provision_state |-> MANAGEABLE,
                                 driver_internal_info |-> {}]]
    /\ ports = [m \in MacAddrs |-> 0]
    /\ pc = "idle"
    /\ call = NoCall
    /\ node_uuid = 0
    /\ node = NoNode
    /\ nodes_by_bmc = {}
    /\ result = NoResult
    /\ mac_node = NoNode
    /\ stage = "none"
    /\ interfered = FALSE

NextLookup ==
    \/ \E macs \in SUBSET MacAddrs, bmcs \in SUBSET BmcAddrs,
          uuid \in Nodes \cup {0} : lookup_node(macs, bmcs, uuid)
    \/ lookup_by_macs
    \/ lookup_by_bmc
    \/ lookup_fetch
    \/ lookup_return
    \/ \E u \in Nodes : CreateNode(u)
    \/ \E m \in MacAddrs, u \in Nodes : CreatePort(m, u)
    \/ \E u \in Nodes, addresses \in SUBSET BmcAddrs :
          StartInspection(u, addresses)
    \/ \E u \in Nodes : EndInspection(u)
    \/ \E u \in Nodes : DestroyNode(u)

(***************************************************************************)
(* JSON values of a request body                                           *)
(***************************************************************************)
\* Longest condition or action list of a request.
MaxLen == 2

\* Longest tail of a field string given to _parse_path.
MaxFieldLen == 6

\* A JSON value with its JSON type.  Strings that _parse_path reads are
\* sequences of characters, the others are atoms.
JString(s) == [type |-> "string", val |-> s]

JBoolean(b) == [type |-> "boolean", val |-> b]

JInteger(n) == [type |-> "integer", val |-> n]

\* A JSON object is a function from its keys to their values.
Without(obj, key) == [k \in DOMAIN obj \ {key} |-> obj[k]]

With(obj, key, value) == (key :> value) @@ obj

\* dict.get(key, default) for a list-valued key of the request body.
Absent == [present |-> FALSE, items |-> <<>>]

Present(items) == [present |-> TRUE, items |-> items]

Get(member, default) == IF member.present THEN member.items ELSE default

ListsOver(S) == UNION {[1..n -> S] : n \in 0..MaxLen}

Min(S) == CHOOSE i \in S : \A j \in S : i <= j

Chars_data == <<"d", "a", "t", "a">>

Chars_node == <<"n", "o", "d", "e">>

Chars_file == <<"f", "i", "l", "e">>

Chars_sep == <<":", "/", "/">>

(***************************************************************************)
(* _parse_path                                                             *)
(***************************************************************************)
\* The positions (from 1) where needle occurs in path.
Occurrences(path, needle) ==
    {i \in 1..(Len(path) + 1 - Len(needle)) :
        SubSeq(path, i, i + Len(needle) - 1) = needle}

\* A variant that splits at the first ":" whatever follows it.
_parse_path_AtColon(path) ==
    IF Occurrences(path, <<":">>) = {}
    THEN [scheme |-> Chars_data, path |-> path]
    ELSE LET index == Min(Occurrences(path, <<":">>))
         IN  [scheme |-> SubSeq(path, 1, index - 1),
              path |-> SubSeq(path, index + 3, Len(path))]

\* Lines 43-61.  str.index gives the lowest position of '://' and raises
\* ValueError when there is none.
_parse_path(path) ==
    IF Occurrences(path, Chars_sep) = {}
    THEN [scheme |-> Chars_data, path |-> path]
    ELSE LET index == Min(Occurrences(path, Chars_sep))
         IN  [scheme |-> SubSeq(path, 1, index - 1),
              path |-> SubSeq(path, index + 3, Len(path))]

(***************************************************************************)
(* Operator registries and the path parser (collaborators)                 *)
(***************************************************************************)
\* api_utils.rule_conditions_manager(): operator name -> the parameters its
\* plugin requires.
ConditionPlugins == [name \in {"eq"} |-> {"value"}]

\* api_utils.rule_actions_manager().
ActionPlugins == [name \in {"set-trait"} |-> {"trait"}]

\* plugin.validate(params): raises ValueError unless the parameters are the
\* plugin's own.
PluginValidates(plugins, name, params) == DOMAIN params = plugins[name]

\* Whether the JSON-path parser accepts the expression.
JsonPathParses(path) ==
    /\ path # <<>>
    /\ \A i \in 1..Len(path) : path[i] \notin {"[", ":", "/"}

\* The names bound at module level of inspection_rule.py: its imports
\* (lines 13-33), its assignments (36-40) and its definitions (43-253).
ModuleGlobals ==
    {"http_client", "metrics_utils", "jsonschema", "log", "uuidutils",
     "pecan", "rest", "webob_exc", "api", "link", "collection", "notify",
     "api_utils", "method", "args", "exception", "_", "ironic", "objects",
     "CONF", "LOG", "METRICS", "DEFAULT_RETURN_FIELDS", "_parse_path",
     "conditions_schema", "actions_schema", "_validate_conditions",
     "_validate_actions", "rules_sanitize", "convert_with_links",
     "list_convert_with_links", "InspectionRuleController"}

\* Reading a global name that is not bound raises NameError.
NameBound(name) == name \in ModuleGlobals

(***************************************************************************)
(* Outcomes of the validators                                              *)
(***************************************************************************)
Ok(value) == [exc |-> "none", msg |-> "none", value |-> value]

Fail(exc, msg) == [exc |-> exc, msg |-> msg, value |-> <<>>]

NotRun == [exc |-> "not run", msg |-> "none", value |-> <<>>]

(***************************************************************************)
(* _validate_conditions                                                    *)
(***************************************************************************)
\* Lines 64-101: conditions_schema() reads the global _CONDITIONS_SCHEMA
\* before it assigns it.
conditions_schema_raises == ~NameBound("_CONDITIONS_SCHEMA")

\* Lines 74-98: the schema of one item.
ConditionItemValid(c) ==
    /\ {"op", "field"} \subseteq DOMAIN c
    /\ c["op"].type = "string"
    /\ c["op"].val \in DOMAIN ConditionPlugins
    /\ c["field"].type = "string"
    /\ "multiple" \in DOMAIN c =>
           (c["multiple"].type = "string"
            /\ c["multiple"].val \in {"all", "any", "first"})
    /\ "invert" \in DOMAIN c => c["invert"].type = "boolean"

\* Lines 164-165.
reserved_params == {"op", "field", "multiple", "invert"}

ConditionParams(cond_json) ==
    [k \in DOMAIN cond_json \ reserved_params |-> cond_json[k]]

\* Lines 156-161: jsonpath.parse(path) inside try / except Exception.
jsonpath_parse_raises(path) ==
    ~NameBound("jsonpath") \/ ~JsonPathParses(path)

\* Lines 146-171: the checks of one loop iteration.
ConditionCheck(cond_json) ==
    LET parsed_field == _parse_path(cond_json["field"].val)
    IN  IF parsed_field.scheme \notin {Chars_node, Chars_data}
        THEN Fail("Invalid", "Unsupported scheme for field")
        ELSE IF jsonpath_parse_raises(parsed_field.path)
        THEN Fail("Invalid", "Unable to parse field JSON path")
        ELSE IF ~PluginValidates(ConditionPlugins, cond_json["op"].val,
                                 ConditionParams(cond_json))
        THEN Fail("Invalid", "Invalid parameters for operator")
        ELSE Ok(<<>>)

\* Lines 173-177: the tuple appended for one entry.
ConditionTuple(cond_json) ==
    <<cond_json["field"].val,
      cond_json["op"].val,
      IF "multiple" \in DOMAIN cond_json
      THEN cond_json["multiple"].val ELSE "any",
      IF "invert" \in DOMAIN cond_json
      THEN cond_json["invert"].val ELSE "false",
      ConditionParams(cond_json)>>

\* Lines 130-178.
_validate_conditions(conditions_json) ==
    IF conditions_schema_raises
    THEN Fail("NameError", "name '_CONDITIONS_SCHEMA' is not defined")
    ELSE IF \E i \in 1..Len(conditions_json) :
                ~ConditionItemValid(conditions_json[i])
    THEN Fail("ClientSideError", "Validation failed for conditions")
    ELSE LET failing == {i \in 1..Len(conditions_json) :
                            ConditionCheck(conditions_json[i]).exc # "none"}
         IN  IF failing # {}
             THEN ConditionCheck(conditions_json[Min(failing)])
             ELSE Ok([i \in 1..Len(conditions_json) |->
                          ConditionTuple(conditions_json[i])])

(***************************************************************************)
(* _validate_actions                                                       *)
(***************************************************************************)
\* Lines 104-127: actions_schema() reads the global _ACTIONS_SCHEMA before
\* it assigns it.
actions_schema_raises == ~NameBound("_ACTIONS_SCHEMA")

\* Lines 113-124: the schema of one item.
ActionItemValid(a) ==
    /\ "action" \in DOMAIN a
    /\ a["action"].val \in DOMAIN ActionPlugins

\* Line 196.
ActionParams(action_json) ==
    [k \in DOMAIN action_json \ {"action"} |-> action_json[k]]

\* Lines 181-204.
_validate_actions(actions_json) ==
    IF actions_schema_raises
    THEN Fail("NameError", "name '_ACTIONS_SCHEMA' is not defined")
    ELSE IF \/ Len(actions_json) < 1
            \/ \E i \in 1..Len(actions_json) :
                   ~ActionItemValid(actions_json[i])
    THEN Fail("Invalid", "Validation failed for actions")
    ELSE LET failing == {i \in 1..Len(actions_json) :
                            ~PluginValidates(ActionPlugins,
                                             actions_json[i]["action"].val,
                                             ActionParams(actions_json[i]))}
         IN  IF failing # {}
             THEN Fail("Invalid", "Invalid parameters for action")
             ELSE Ok([i \in 1..Len(actions_json) |->
                          <<actions_json[i]["action"].val,
                            ActionParams(actions_json[i])>>])

(***************************************************************************)
(* Requests                                                                *)
(***************************************************************************)
Field_data_a == Chars_data \o Chars_sep \o <<"a">>

Field_node_a == Chars_node \o Chars_sep \o <<"a">>

Field_file_a == Chars_file \o Chars_sep \o <<"a">>

Field_bad_path == Chars_data \o Chars_sep \o <<"[">>

\* {"op": "eq", "field": "data://a", "value": 4}
BaseCondition ==
    ("op" :> JString("eq")) @@ ("field" :> JString(Field_data_a))
        @@ ("value" :> JInteger(4))

\* The base entry and entries that differ from it in one or two members:
\* one for every way an entry can be accepted or rejected.
CondEntries ==
    {BaseCondition,
     With(BaseCondition, "field", JString(Field_node_a)),
     With(BaseCondition, "field", JString(<<"a">>)),
     With(BaseCondition, "multiple", JString("all")),
     With(BaseCondition, "multiple", JString("first")),
     With(BaseCondition, "invert", JBoolean("true")),
     With(With(BaseCondition, "multiple", JString("any")),
          "invert", JBoolean("false")),
     Without(BaseCondition, "op"),
     Without(BaseCondition, "field"),
     With(BaseCondition, "op", JString("bogus")),
     With(BaseCondition, "multiple", JString("some")),
     With(BaseCondition, "invert", JString("yes")),
     With(BaseCondition, "field", JString(Field_file_a)),
     With(BaseCondition, "field", JString(Chars_sep \o <<"a">>)),
     With(BaseCondition, "field", JString(Field_bad_path)),
     Without(BaseCondition, "value"),
     With(BaseCondition, "extra", JInteger(4)),
     Without(With(BaseCondition, "field", JString(Field_file_a)), "value"),
     With(With(BaseCondition, "field", JString(Field_bad_path)),
          "op", JString("bogus"))}

\* {"action": "set-trait", "trait": "QUAD_CORE"}
BaseAction ==
    ("action" :> JString("set-trait")) @@ ("trait" :> JString("QUAD_CORE"))

ActEntries ==
    {BaseAction,
     With(BaseAction, "trait", JString("OCTO_CORE")),
     Without(BaseAction, "action"),
     With(BaseAction, "action", JString("bogus")),
     Without(BaseAction, "trait")}

\* The condition lists of the API requests.
PostCondEntries ==
    {BaseCondition,
     With(BaseCondition, "op", JString("bogus")),
     With(BaseCondition, "field", JString(Field_file_a))}

\* uuids a request may carry ("" for none) and the one generate_uuid gives.
RequestUuids == {"", "uuid-1"}

GeneratedUuids == {"uuid-g"}

PostBodies ==
    [conditions : {Absent} \cup {Present(l) : l \in ListsOver(PostCondEntries)},
     actions : {Absent} \cup {Present(l) : l \in ListsOver(ActEntries)},
     uuid : RequestUuids]

(***************************************************************************)
(* Persistence and notifications                                           *)
(***************************************************************************)
StoredUuids == {r.uuid : r \in rules}

\* InspectionRule.create (objects/inspection_rule.py lines 42-58): raises
\* InspectionRuleAlreadyExists when a rule with the uuid is stored.
CreateRaises(rule) == rule.uuid \in StoredUuids

NoTrace == [conditions |-> NotRun, actions |-> NotRun, create_called |-> FALSE,
            rules_before |-> {}]

NoRequest == [handler |-> "none", body |-> <<>>]

\* Reads of the store, and the operations that change it.
IsRead(db_call) == db_call[1] \in {"get", "list"}

IsWrite(db_call) == ~IsRead(db_call)

DbEvents(calls) == [i \in 1..Len(calls) |-> <<"db", calls[i][1], calls[i][2]>>]

NotifyEvents(notes) ==
    [i \in 1..Len(notes) |-> <<"notify", notes[i][1], notes[i][2]>>]

\* The order in which a handler calls its collaborators (post, lines
\* 366-376): the object is looked up, the start notification is emitted,
\* the persistence operation runs inside the error scope, then the error or
\* end notification is emitted.
ProgramOrder(calls, notes) ==
    DbEvents(SelectSeq(calls, IsRead))
        \o (IF notes = <<>>
            THEN DbEvents(SelectSeq(calls, IsWrite))
            ELSE NotifyEvents(<<Head(notes)>>)
                     \o DbEvents(SelectSeq(calls, IsWrite))
                     \o NotifyEvents(Tail(notes)))

(***************************************************************************)
(* InspectionRuleController.post                                           *)
(***************************************************************************)
\* A variant whose validators report instead of raising, so that the handler
\* goes on to create().
PostReachesCreate_Unchecked(conditions, actions) == TRUE

\* Lines 356-359: an exception of a validator leaves the handler.
PostReachesCreate(conditions, actions) ==
    conditions.exc = "none" /\ actions.exc = "none"

\* Lines 345-377.  allowed: api_utils.allow_inspection_rules();
\* generated: what uuidutils.generate_uuid() returns.
post(inspection_rule, allowed, generated) ==
    LET conditions == _validate_conditions(
                          Get(inspection_rule.conditions, <<>>))
        actions == IF conditions.exc = "none"
                   THEN _validate_actions(Get(inspection_rule.actions, <<>>))
                   ELSE NotRun
        new_rule == [uuid |-> IF inspection_rule.uuid = ""
                              THEN generated ELSE inspection_rule.uuid,
                     conditions |-> conditions.value,
                     actions |-> actions.value]
    IN  /\ request = NoRequest
        /\ request' = [handler |-> "post", body |-> inspection_rule]
        /\ IF ~allowed
           THEN /\ response' = Fail("NotFound", "none")
                /\ trace' = [NoTrace EXCEPT !.rules_before = rules]
                /\ notifications' = <<>>
                /\ db_calls' = <<>>
                /\ UNCHANGED rules
           ELSE IF ~PostReachesCreate(conditions, actions)
           THEN /\ response' = (IF conditions.exc # "none"
                                THEN conditions ELSE actions)
                /\ trace' = [conditions |-> conditions, actions |-> actions,
                             create_called |-> FALSE, rules_before |-> rules]
                /\ notifications' = <<>>
                /\ db_calls' = <<>>
                /\ UNCHANGED rules
           ELSE /\ trace' = [conditions |-> conditions, actions |-> actions,
                             create_called |-> TRUE, rules_before |-> rules]
                /\ db_calls' = <<<<"create", new_rule.uuid>>>>
                /\ IF CreateRaises(new_rule)
                   THEN /\ response' = Fail("InspectionRuleAlreadyExists",
                                            "none")
                        /\ notifications' = <<<<"create", "start">>,
                                              <<"create", "error">>>>
                        /\ UNCHANGED rules
                   ELSE /\ response' = Ok(<<new_rule.uuid>>)
                        /\ notifications' = <<<<"create", "start">>,
                                              <<"create", "end">>>>
                        /\ rules' = rules \cup {new_rule}
    /\ events' = ProgramOrder(db_calls', notifications')
    /\ UNCHANGED <<lookupVars, pathVars, sideVars, runbookVars>>

\* The validators called on their own.
validate_conditions(conditions_json) ==
    /\ request = NoRequest
    /\ request' = [handler |-> "_validate_conditions",
                   body |-> conditions_json]
    /\ response' = _validate_conditions(conditions_json)
    /\ trace' = NoTrace
    /\ notifications' = <<>>
    /\ db_calls' = <<>>
    /\ events' = <<>>
    /\ UNCHANGED <<rules, lookupVars, pathVars, sideVars, runbookVars>>

validate_actions(actions_json) ==
    /\ request = NoRequest
    /\ request' = [handler |-> "_validate_actions", body |-> actions_json]
    /\ response' = _validate_actions(actions_json)
    /\ trace' = NoTrace
    /\ notifications' = <<>>
    /\ db_calls' = <<>>
    /\ events' = <<>>
    /\ UNCHANGED <<rules, lookupVars, pathVars, sideVars, runbookVars>>

\* A rule stored through the object layer alone (InspectionRule.create), as
\* the conductor and the test fixtures do.
InspectionRule_create(uuid) ==
    /\ request = NoRequest
    /\ uuid \notin StoredUuids
    /\ rules' = rules \cup
           {[uuid |-> uuid, conditions |-> <<>>,
             actions |-> <<<<"set-trait", ActionParams(BaseAction)>>>>]}
    /\ UNCHANGED <<request, response, trace, notifications, db_calls,
                   events>>
    /\ UNCHANGED <<lookupVars, pathVars, sideVars, runbookVars>>

\* The answer has gone to the client; the next request may come.
reply ==
    /\ request # NoRequest
    /\ request' = NoRequest
    /\ response' = NotRun
    /\ trace' = NoTrace
    /\ notifications' = <<>>
    /\ db_calls' = <<>>
    /\ events' = <<>>
    /\ runbooks_before' = {}
    /\ UNCHANGED <<rules, runbooks, lookupVars, pathVars, sideVars>>

(***************************************************************************)
(* Runbooks (ironic/api/controllers/v1/runbook.py)                         *)
(***************************************************************************)
\* Longest step list of a create or patch request.
MaxSteps == 2

\* Longest step list given to duplicate_steps on its own.
MaxDupSteps == 4

\* JSON null / None, and a key that the dict does not have.
Null == "null"

NoValue == "unset"

Projects == {"p1", "p2"}

\* bool(x) of an optional string or boolean.
Truthy(x) == x \notin {NoValue, Null, "", "false"}

\* Steps: two of them address the same (interface, step) pair.
StepEntries ==
    {[interface |-> "raid", step |-> "create_configuration", order |-> 1],
     [interface |-> "raid", step |-> "create_configuration", order |-> 2],
     [interface |-> "bios", step |-> "apply_configuration", order |-> 1]}

StepLists == UNION {[1..n -> StepEntries] : n \in 0..MaxSteps}

DupStepLists == UNION {[1..n -> StepEntries] : n \in 0..MaxDupSteps}

(***************************************************************************)
(* duplicate_steps and RUNBOOK_VALIDATOR                                   *)
(***************************************************************************)
\* Lines 83-84: collections.Counter over the (interface, step) pairs.
Counter(steps) ==
    [key \in {<<steps[i].interface, steps[i].step>> : i \in DOMAIN steps} |->
        Cardinality({i \in DOMAIN steps :
                        <<steps[i].interface, steps[i].step>> = key})]

\* A variant that tolerates a pair given twice.
Duplicates_MoreThanTwice(steps) ==
    {key \in DOMAIN Counter(steps) : Counter(steps)[key] > 2}

\* Line 85.
Duplicates(steps) ==
    {key \in DOMAIN Counter(steps) : Counter(steps)[key] > 1}

\* Lines 87-88: "interface: %s, step: %s" % (interface, step).
FormatDuplicate(key) == <<"interface: ", key[1], ", step: ", key[2]>>

\* Line 91: "; ".join over a set, whose iteration order is not fixed: every
\* listing of the set's members, each once.
Joined(S) ==
    {listing \in [1..Cardinality(S) -> S] :
        \A i, j \in 1..Cardinality(S) : listing[i] = listing[j] => i = j}

InvalidRunbook(listing) ==
    [exc |-> "InvalidRunbook", msg |-> "Duplicate runbook steps",
     value |-> <<>>, listing |-> listing]

\* Lines 73-93: the outcomes of duplicate_steps(name, value).
duplicate_steps(value) ==
    IF Duplicates(value.steps.items) # {}
    THEN {InvalidRunbook(listing) :
            listing \in Joined({FormatDuplicate(key) :
                                   key \in Duplicates(value.steps.items)})}
    ELSE {Ok(value)}

\* Lines 43-60: RUNBOOK_SCHEMA requires steps, with at least one item.
RUNBOOK_SCHEMA_Unchecked(value) == TRUE

RUNBOOK_SCHEMA(value) ==
    /\ value.steps.present
    /\ Len(value.steps.items) >= 1

\* Lines 96-100: the schema, then duplicate_steps.
RUNBOOK_VALIDATOR(value) ==
    IF ~RUNBOOK_SCHEMA(value)
    THEN {Fail("InvalidParameterValue", "Schema error")}
    ELSE duplicate_steps(value)

(***************************************************************************)
(* Runbook requests, persistence and notifications                         *)
(***************************************************************************)
\* uuid of a request body ("" for none) and what generate_uuid gives.
RunbookRequestUuids == {"", "rb-g"}

RunbookGeneratedUuids == {"rb-g"}

RunbookBodies ==
    [steps : {Absent} \cup {Present(l) : l \in StepLists},
     owner : {NoValue, ""} \cup Projects,
     public : {NoValue, "true", "false"},
     uuid : RunbookRequestUuids]

\* context.to_policy_values(): the caller's system scope and project.
Callers == [system_scope : {"all", Null}, project_id : {Null} \cup Projects]

\* JSON patch operations on the fields the claims are about.
Scalar(s) == [scalar |-> s, items |-> <<>>]

Array(l) == [scalar |-> Null, items |-> l]

PatchOps ==
    [op : {"replace"}, path : {"/owner"}, value : {Scalar("p1"), Scalar(Null)}]
        \cup [op : {"replace"}, path : {"/public"},
              value : {Scalar("true"), Scalar("false")}]
        \cup [op : {"replace"}, path : {"/steps"},
              value : {Array(l) : l \in StepLists}]
        \cup [op : {"remove"}, path : {"/owner", "/steps"},
              value : {Scalar(Null)}]

\* Patch documents of at most two operations.
PatchDocs ==
    {<<>>} \cup {<<a>> : a \in PatchOps}
           \cup {<<a, b>> : a \in PatchOps, b \in PatchOps}

StoredRunbookUuids == {r.uuid : r \in runbooks}

\* objects.Runbook.create: the uuid is unique.
Runbook_create_raises(runbook) == runbook.uuid \in StoredRunbookUuids

\* api_utils.get_rpc_runbook(ident): the stored runbooks with the uuid.
get_rpc_runbook(runbook_ident) == {r \in runbooks : r.uuid = runbook_ident}

\* notify.handle_error_notification: a failure notification when the
\* operation inside the scope raises, which is raised again.
handle_error_notification(operation, raised) ==
    IF raised THEN <<<<operation, "error">>>> ELSE <<>>

\* A variant that emits the end notification whatever happened.
emit_end_notification_Always(operation, raised) == <<<<operation, "end">>>>

\* Lines 289-294, 346-349, 367-368: emit_end_notification follows the scope,
\* so an exception raised in the scope leaves the handler before it.
emit_end_notification(operation, raised) ==
    IF raised THEN <<>> ELSE <<<<operation, "end">>>>

\* Lines 287-294: the notifications of one persistence operation.
Notified(operation, raised) ==
    <<<<operation, "start">>>>
        \o handle_error_notification(operation, raised)
        \o emit_end_notification(operation, raised)

(***************************************************************************)
(* RunbooksController.post                                                 *)
(***************************************************************************)
\* Lines 270-273.
CallerProject(cdict) ==
    IF Truthy(cdict.project_id) THEN cdict.project_id ELSE Null

\* A variant that lets any requested owner through.
OwnerRefused_Never(cdict, runbook) == FALSE

\* Lines 269-281.
OwnerRefused(cdict, runbook) ==
    /\ cdict.system_scope # "all"
    /\ Truthy(runbook.owner)
    /\ runbook.owner # CallerProject(cdict)

\* Lines 282-285: the fields of the Runbook object built from the body; a
\* public that is not given is the column's default.
NewRunbook(cdict, runbook, uuid) ==
    [uuid |-> uuid,
     owner |-> IF cdict.system_scope # "all"
               THEN CallerProject(cdict)
               ELSE IF runbook.owner = NoValue THEN Null ELSE runbook.owner,
     public |-> IF runbook.public = NoValue THEN "false" ELSE runbook.public,
     steps |-> runbook.steps.items]

\* Lines 255-295, with the validator that args.validate runs first.
RunbooksController_post(runbook, cdict, generated) ==
    LET uuid == IF runbook.uuid = "" THEN generated ELSE runbook.uuid
        new_runbook == NewRunbook(cdict, runbook, uuid)
        raised == Runbook_create_raises(new_runbook)
    IN  /\ request = NoRequest
        /\ runbook.uuid = "" => generated \notin StoredRunbookUuids
        /\ request' = [handler |-> "RunbooksController.post",
                       body |-> [runbook |-> runbook, cdict |-> cdict]]
        /\ runbooks_before' = runbooks
        /\ trace' = NoTrace
        /\ \E validated \in RUNBOOK_VALIDATOR(runbook) :
              IF validated.exc # "none"
              THEN /\ response' = validated
                   /\ notifications' = <<>>
                   /\ db_calls' = <<>>
                   /\ UNCHANGED runbooks
              ELSE IF OwnerRefused(cdict, runbook)
              THEN /\ response' = Fail("Invalid", "Cannot create a runbook as a project scoped admin with an owner other than your own project.")
                   /\ notifications' = <<>>
                   /\ db_calls' = <<>>
                   /\ UNCHANGED runbooks
              ELSE /\ db_calls' = <<<<"create", uuid>>>>
                   /\ notifications' = Notified("create", raised)
                   /\ IF raised
                      THEN /\ response' = Fail("RunbookAlreadyExists", "none")
                           /\ UNCHANGED runbooks
                      ELSE /\ response' = Ok(new_runbook)
                           /\ runbooks' = runbooks \cup {new_runbook}
        /\ events' = ProgramOrder(db_calls', notifications')
        /\ UNCHANGED <<rules, lookupVars, pathVars, sideVars>>

(***************************************************************************)
(* RunbooksController.patch                                                *)
(***************************************************************************)
\* api_utils.get_patch_values(patch, path): the values the patch gives for
\* the path, in order, those of remove operations left out.
get_patch_values(patch, path) ==
    LET Gives(p) == p.path = path /\ p.op # "remove"
        picked == SelectSeq(patch, Gives)
    IN  [i \in 1..Len(picked) |-> picked[i].value]

\* rpc_runbook.as_dict() (line 313).
as_dict(rpc_runbook) ==
    [uuid |-> rpc_runbook.uuid, owner |-> rpc_runbook.owner,
     public |-> rpc_runbook.public, steps |-> Present(rpc_runbook.steps)]

\* Lines 318-323.
OwnerPatchRefused(owner, public, runbook) ==
    /\ owner # <<>>
    /\ (public # <<>> \/ Truthy(runbook.public))

\* A variant that leaves the owner as it is stored.
ClearOwner_Keep(public, runbook) == runbook

\* Lines 325-327.
ClearOwner(public, runbook) ==
    IF public # <<>> THEN [runbook EXCEPT !.owner = Null] ELSE runbook

\* One operation of a JSON patch on the document: replace and remove need
\* the member to be there.
ApplyOp(doc, p) ==
    LET key == IF p.path = "/owner" THEN "owner"
               ELSE IF p.path = "/public" THEN "public" ELSE "steps"
        missing == IF key = "steps" THEN ~doc.steps.present
                   ELSE doc[key] = NoValue
    IN  IF missing
        THEN Fail("PatchError", "member does not exist")
        ELSE IF p.op = "remove"
        THEN Ok([doc EXCEPT ![key] = IF key = "steps" THEN Absent ELSE NoValue])
        ELSE Ok([doc EXCEPT ![key] = IF key = "steps"
                                     THEN Present(p.value.items)
                                     ELSE p.value.scalar])

\* api_utils.apply_jsonpatch(doc, patch): one operation at a time.
RECURSIVE apply_jsonpatch(_, _)
apply_jsonpatch(doc, patch) ==
    IF patch = <<>>
    THEN Ok(doc)
    ELSE LET first == ApplyOp(doc, Head(patch))
         IN  IF first.exc # "none"
             THEN first
             ELSE apply_jsonpatch(first.value, Tail(patch))

\* api_utils.patch_update_changed_fields: the object takes the fields of the
\* patched document, None for those it no longer has.
patch_update_changed_fields(runbook, rpc_runbook) ==
    [uuid |-> rpc_runbook.uuid,
     owner |-> IF runbook.owner = NoValue THEN Null ELSE runbook.owner,
     public |-> runbook.public,
     steps |-> runbook.steps.items]

\* Lines 301-351.  db_error: rpc_runbook.save() raises.
RunbooksController_patch(runbook_ident, patch, db_error) ==
    LET found == get_rpc_runbook(runbook_ident)
        rpc_runbook == CHOOSE r \in found : TRUE
        owner == get_patch_values(patch, "/owner")
        public == get_patch_values(patch, "/public")
        patched == apply_jsonpatch(ClearOwner(public, as_dict(rpc_runbook)),
                                   patch)
    IN  /\ request = NoRequest
        /\ request' = [handler |-> "RunbooksController.patch",
                       body |-> [runbook_ident |-> runbook_ident,
                                 patch |-> patch]]
        /\ runbooks_before' = runbooks
        /\ trace' = NoTrace
        /\ IF found = {}
           THEN /\ response' = Fail("RunbookNotFound", "none")
                /\ notifications' = <<>>
                /\ db_calls' = <<<<"get", runbook_ident>>>>
                /\ UNCHANGED runbooks
           ELSE IF OwnerPatchRefused(owner, public, as_dict(rpc_runbook))
           THEN /\ response' = Fail("PatchError", "There cannot be an owner for a public runbook")
                /\ notifications' = <<>>
                /\ db_calls' = <<<<"get", runbook_ident>>>>
                /\ UNCHANGED runbooks
           ELSE IF patched.exc # "none"
           THEN /\ response' = patched
                /\ notifications' = <<>>
                /\ db_calls' = <<<<"get", runbook_ident>>>>
                /\ UNCHANGED runbooks
           ELSE \E validated \in RUNBOOK_VALIDATOR(patched.value) :
                   IF validated.exc # "none"
                   THEN /\ response' = validated
                        /\ notifications' = <<>>
                        /\ db_calls' = <<<<"get", runbook_ident>>>>
                        /\ UNCHANGED runbooks
                   ELSE /\ db_calls' = <<<<"get", runbook_ident>>,
                                         <<"save", rpc_runbook.uuid>>>>
                        /\ notifications' = Notified("update", db_error)
                        /\ IF db_error
                           THEN /\ response' = Fail("DBError", "none")
                                /\ UNCHANGED runbooks
                           ELSE LET saved == patch_update_changed_fields(
                                                 patched.value, rpc_runbook)
                                IN  /\ response' = Ok(saved)
                                    /\ runbooks' = (runbooks \ {rpc_runbook})
                                                       \cup {saved}
        /\ events' = ProgramOrder(db_calls', notifications')
        /\ UNCHANGED <<rules, lookupVars, pathVars, sideVars>>

(***************************************************************************)
(* RunbooksController.delete                                               *)
(***************************************************************************)
\* Lines 356-368.  db_error: rpc_runbook.destroy() raises.
RunbooksController_delete(runbook_ident, db_error) ==
    LET found == get_rpc_runbook(runbook_ident)
        rpc_runbook == CHOOSE r \in found : TRUE
    IN  /\ request = NoRequest
        /\ request' = [handler |-> "RunbooksController.delete",
                       body |-> [runbook_ident |-> runbook_ident]]
        /\ runbooks_before' = runbooks
        /\ trace' = NoTrace
        /\ IF found = {}
           THEN /\ response' = Fail("RunbookNotFound", "none")
                /\ notifications' = <<>>
                /\ db_calls' = <<<<"get", runbook_ident>>>>
                /\ UNCHANGED runbooks
           ELSE /\ db_calls' = <<<<"get", runbook_ident>>,
                                 <<"destroy", rpc_runbook.uuid>>>>
                /\ notifications' = Notified("delete", db_error)
                /\ IF db_error
                   THEN /\ response' = Fail("DBError", "none")
                        /\ UNCHANGED runbooks
                   ELSE /\ response' = Ok(<<>>)
                        /\ runbooks' = runbooks \ {rpc_runbook}
        /\ events' = ProgramOrder(db_calls', notifications')
        /\ UNCHANGED <<rules, lookupVars, pathVars, sideVars>>

\* duplicate_steps called on its own.
validate_duplicate_steps(steps) ==
    /\ request = NoRequest
    /\ request' = [handler |-> "duplicate_steps",
                   body |-> [steps |-> Present(steps)]]
    /\ response' \in duplicate_steps([steps |-> Present(steps)])
    /\ runbooks_before' = runbooks
    /\ trace' = NoTrace
    /\ notifications' = <<>>
    /\ db_calls' = <<>>
    /\ events' = <<>>
    /\ UNCHANGED <<runbooks, rules, lookupVars, pathVars, sideVars>>

NextRunbook ==
    \/ /\ request = NoRequest
       /\ \E runbook \in RunbookBodies, cdict \in Callers,
             generated \in RunbookGeneratedUuids :
             RunbooksController_post(runbook, cdict, generated)
    \/ /\ request = NoRequest
       /\ \E runbook_ident \in RunbookGeneratedUuids, patch \in PatchDocs,
             db_error \in BOOLEAN :
             RunbooksController_patch(runbook_ident, patch, db_error)
    \/ \E runbook_ident \in RunbookGeneratedUuids, db_error \in BOOLEAN :
          RunbooksController_delete(runbook_ident, db_error)
    \/ /\ request = NoRequest
       /\ \E steps \in DupStepLists : validate_duplicate_steps(steps)
    \/ reply

(***************************************************************************)
(* InspectionRuleController._route and delete                              *)
(***************************************************************************)
HttpMethods == {"GET", "POST", "PATCH", "DELETE"}

\* What a DELETE request names: a stored uuid, or the word all.
RuleIdents == {"uuid-1", "uuid-g", "all"}

\* The methods class InspectionRule defines (objects/inspection_rule.py,
\* lines 42-128); its base class brings no persistence operation.
InspectionRule_methods == {"create", "get_by_uuid", "list", "refresh"}

\* InspectionRule.get_by_uuid and InspectionRule.list on the stored rules.
InspectionRule_get_by_uuid(uuid) == {r \in rules : r.uuid = uuid}

InspectionRule_list == rules

\* api_utils.get_inspection_rule(ident): the stored rules the ident names.
get_inspection_rule(inspection_rule_ident) ==
    InspectionRule_get_by_uuid(inspection_rule_ident)

\* A variant that answers every method like a GET.
_route_raises_NotFound(http_method, allowed) ==
    IF allowed THEN Ok(<<>>) ELSE Fail("HTTPNotFound", "none")

\* Lines 259-266.
_route_raises(http_method, allowed) ==
    IF allowed
    THEN Ok(<<>>)
    ELSE IF http_method = "GET"
    THEN Fail("HTTPNotFound",
              "The API version does not allow inspection rules")
    ELSE Fail("HTTPMethodNotAllowed",
              "The API version does not allow inspection rules")

\* Lines 259-266 for a request whose API version does not allow inspection
\* rules; with a version that allows them _route hands the request to the
\* handler, which the other actions are.
_route(http_method) ==
    /\ request = NoRequest
    /\ request' = [handler |-> "_route",
                   body |-> [http_method |-> http_method, allowed |-> FALSE]]
    /\ response' = _route_raises(http_method, FALSE)
    /\ trace' = [NoTrace EXCEPT !.rules_before = rules]
    /\ notifications' = <<>>
    /\ db_calls' = <<>>
    /\ events' = <<>>
    /\ UNCHANGED <<rules, lookupVars, pathVars, sideVars, runbookVars>>

\* Lines 382-398.  allowed: api_utils.allow_inspection_rules().
delete(inspection_rule_ident, allowed) ==
    LET found == get_inspection_rule(inspection_rule_ident)
        rpc_rule == CHOOSE r \in found : TRUE
        raised == "destroy" \notin InspectionRule_methods
    IN  /\ request = NoRequest
        /\ request' = [handler |-> "delete",
                       body |-> [inspection_rule_ident |->
                                     inspection_rule_ident,
                                 allowed |-> allowed]]
        /\ trace' = [NoTrace EXCEPT !.rules_before = rules]
        /\ IF ~allowed
           THEN /\ response' = Fail("NotFound", "none")
                /\ notifications' = <<>>
                /\ db_calls' = <<>>
                /\ UNCHANGED rules
           ELSE IF found = {}
           THEN /\ response' = Fail("InspectionRuleNotFound", "none")
                /\ notifications' = <<>>
                /\ db_calls' = <<<<"get", inspection_rule_ident>>>>
                /\ UNCHANGED rules
           ELSE /\ notifications' = Notified("delete", raised)
                /\ IF raised
                   THEN /\ response' = Fail("AttributeError",
                            "'InspectionRule' object has no attribute 'destroy'")
                        /\ db_calls' = <<<<"get", inspection_rule_ident>>>>
                        /\ UNCHANGED rules
                   ELSE /\ response' = Ok(<<>>)
                        /\ db_calls' = <<<<"get", inspection_rule_ident>>,
                                         <<"destroy", rpc_rule.uuid>>>>
                        /\ rules' = rules \ {rpc_rule}
        /\ events' = ProgramOrder(db_calls', notifications')
        /\ UNCHANGED <<lookupVars, pathVars, sideVars, runbookVars>>

\* One request is served at a time: a handler starts when none is being
\* answered.
NextRule ==
    \/ /\ request = NoRequest
       /\ \E body \in PostBodies, allowed \in BOOLEAN,
             generated \in GeneratedUuids : post(body, allowed, generated)
    \/ /\ request = NoRequest
       /\ \E l \in ListsOver(CondEntries) : validate_conditions(l)
    \/ /\ request = NoRequest
       /\ \E l \in ListsOver(ActEntries) : validate_actions(l)
    \/ \E uuid \in (RequestUuids \ {""}) \cup GeneratedUuids :
          InspectionRule_create(uuid)
    \/ \E inspection_rule_ident \in RuleIdents, allowed \in BOOLEAN :
          delete(inspection_rule_ident, allowed)
    \/ \E http_method \in HttpMethods : _route(http_method)
    \/ reply

(***************************************************************************)
(* The create, update and delete requests of both controllers together     *)
(***************************************************************************)
\* One request body of each kind that matters to what is persisted.
ApiPostBodies ==
    [conditions : {Absent, Present(<<BaseCondition>>)},
     actions : {Present(<<BaseAction>>)},
     uuid : RequestUuids]

ApiRunbookBodies ==
    [steps : {Present(<<s>>) : s \in {s \in StepEntries : s.order = 1}},
     owner : {NoValue, "p1"},
     public : {NoValue, "true"},
     uuid : RunbookRequestUuids]

ApiCallers ==
    {[system_scope |-> "all", project_id |-> Null],
     [system_scope |-> Null, project_id |-> "p1"]}

ApiPatchDocs ==
    {<<a>> : a \in {p \in PatchOps :
                       /\ p.op = "replace"
                       /\ p.value \in {Scalar("p1"), Scalar("true"),
                                       Array(<<>>)}}}

NextApi ==
    \/ /\ request = NoRequest
       /\ \E body \in ApiPostBodies, generated \in GeneratedUuids :
             post(body, TRUE, generated)
    \/ \E inspection_rule_ident \in RuleIdents :
          delete(inspection_rule_ident, TRUE)
    \/ \E uuid \in (RequestUuids \ {""}) \cup GeneratedUuids :
          InspectionRule_create(uuid)
    \/ /\ request = NoRequest
       /\ \E runbook \in ApiRunbookBodies, cdict \in ApiCallers,
             generated \in RunbookGeneratedUuids :
             RunbooksController_post(runbook, cdict, generated)
    \/ /\ request = NoRequest
       /\ \E runbook_ident \in RunbookGeneratedUuids, patch \in ApiPatchDocs,
             db_error \in BOOLEAN :
             RunbooksController_patch(runbook_ident, patch, db_error)
    \/ \E runbook_ident \in RunbookGeneratedUuids, db_error \in BOOLEAN :
          RunbooksController_delete(runbook_ident, db_error)
    \/ reply

(***************************************************************************)
(* _parse_path on its own                                                  *)
(***************************************************************************)
PathAlphabet == {"a", ":", "/"}

Tails == UNION {[1..n -> PathAlphabet] : n \in 0..MaxFieldLen}

\* Short strings over the separator's characters, and the same after a
\* scheme word.
FieldStrings ==
    Tails \cup {scheme \o t : scheme \in {Chars_data, Chars_node, Chars_file},
                              t \in Tails}

NotParsed == [returned |-> FALSE, scheme |-> <<>>, path |-> <<>>]

parse_path ==
    /\ ~parsed.returned
    /\ parsed' = [returned |-> TRUE,
                  scheme |-> _parse_path(field).scheme,
                  path |-> _parse_path(field).path]
    /\ UNCHANGED <<field, field_check, lookupVars, sideVars, ruleVars,
                   runbookVars>>

\* _validate_conditions given one condition whose field is the string.
validate_field ==
    /\ field_check = NotRun
    /\ field_check' = _validate_conditions(
                          <<With(BaseCondition, "field", JString(field))>>)
    /\ UNCHANGED <<field, parsed, lookupVars, sideVars, ruleVars,
                   runbookVars>>

NextPath == parse_path \/ validate_field

(***************************************************************************)
(* The Kea DHCP client (ironic/dhcp/kea.py)                                *)
(***************************************************************************)
\* Largest configured CONF.dhcp.max_retries.
MaxRetries == 3

\* Longest list of ports of a node.
MaxPorts == 2

\* The threads that call the client at the same time.
KeaCallers == {1, 2}

\* Hardware addresses of ports.
HwAddrs == {"aa", "bb"}

\* What requests.post and raise_for_status make of one request: a response,
\* requests.exceptions.Timeout, or another RequestException.
HttpOutcomes == {"ok", "timeout", "error"}

\* option-data of a reservation: None, or a list of Kea options.
NoOptions == [none |-> TRUE, data |-> <<>>]

OptionData(data) == [none |-> FALSE, data |-> data]

\* The dhcp_options a caller gives: opt_name, opt_value and, for some, an
\* ip_version.
DhcpOptions ==
    {<<>>,
     <<[opt_name |-> "67", opt_value |-> "boot.ipxe", ip_version |-> NoValue]>>,
     <<[opt_name |-> "66", opt_value |-> "tftp", ip_version |-> "4"]>>}

\* Lines 123-132.
kea_options(dhcp_options) ==
    [i \in 1..Len(dhcp_options) |->
        [name |-> dhcp_options[i].opt_name,
         data |-> dhcp_options[i].opt_value,
         always_send |-> TRUE,
         space |-> IF dhcp_options[i].ip_version # NoValue
                   THEN <<"dhcp", dhcp_options[i].ip_version>>
                   ELSE <<>>]]

\* task.ports: the addresses of the node's ports, in order.
PortLists ==
    {l \in UNION {[1..n -> HwAddrs] : n \in 1..MaxPorts} :
        \A i, j \in DOMAIN l : i # j => l[i] # l[j]}

\* A variant that goes on to one more request after the last attempt.
AfterAttempt_OneMore(max_retries, attempt, outcome) ==
    IF outcome = "ok" THEN "return"
    ELSE IF outcome = "error" /\ attempt = max_retries - 1 THEN "raise"
    ELSE IF attempt + 1 < max_retries + 1 THEN "retry"
    ELSE "fall through"

\* Lines 43-66: what iteration number attempt (from 0) of the loop does with
\* the outcome of its request.  A response is returned (line 51); Timeout is
\* logged (52-56) and another RequestException is raised as
\* DHCPConfigurationError on the last attempt and logged otherwise (57-66);
\* when the loop runs out the function ends without a return statement.
AfterAttempt(max_retries, attempt, outcome) ==
    IF outcome = "ok" THEN "return"
    ELSE IF outcome = "error" /\ attempt = max_retries - 1 THEN "raise"
    ELSE IF attempt + 1 < max_retries THEN "retry"
    ELSE "fall through"

\* Lines 97-111: option-data of the first reservation of the address is
\* replaced, or a reservation is appended; remove is not read.
Reserve(reservations, hw_address, options, remove) ==
    LET found == {i \in DOMAIN reservations :
                     reservations[i].hw_address = hw_address}
    IN  IF found # {}
        THEN [reservations EXCEPT ![Min(found)].option_data = options]
        ELSE Append(reservations, [hw_address |-> hw_address,
                                   option_data |-> options])

\* The commands the methods of the client send on their own (lines 68-83
\* and 159-166).
Commands ==
    {"config-get", "subnet4-add", "subnet6-add", "statistic-get-all",
     "lease4-get", "lease6-get"}

Reserved(reservations) ==
    {reservations[i].hw_address : i \in DOMAIN reservations}

IdleCall ==
    [op |-> "idle", pc |-> "idle", command |-> "none", ports |-> <<>>,
     port |-> 0, options |-> NoOptions, remove |-> FALSE, outcomes |-> <<>>,
     config |-> <<>>, success |-> TRUE, result |-> "pending",
     reserved_before |-> {}]

\* _make_request (lines 36-41) called for one command on its own, as
\* get_config, add_subnet, get_statistics and get_ip_addresses do.
_make_request(c, command) ==
    /\ kcalls[c].op = "idle"
    /\ kcalls' = [kcalls EXCEPT ![c] =
                     [IdleCall EXCEPT !.op = "_make_request",
                                      !.pc = "request",
                                      !.command = command]]
    /\ UNCHANGED <<kea, bmc_node, engine>>
    /\ UNCHANGED <<lookupVars, ruleVars, pathVars, runbookVars>>

\* update_dhcp_opts (lines 135-144) up to the first get_config.
update_dhcp_opts(c, task_ports, options) ==
    /\ kcalls[c].op = "idle"
    /\ kcalls' = [kcalls EXCEPT ![c] =
                     [IdleCall EXCEPT !.op = "update_dhcp_opts",
                                      !.pc = "get",
                                      !.command = "config-get",
                                      !.ports = task_ports,
                                      !.port = 1,
                                      !.options =
                                          OptionData(kea_options(options))]]
    /\ UNCHANGED <<kea, bmc_node, engine>>
    /\ UNCHANGED <<lookupVars, ruleVars, pathVars, runbookVars>>

\* clean_dhcp_opts (lines 146-153) up to the first get_config:
\* _update_host_reservation(port.address, remove=True), options being None.
clean_dhcp_opts(c, task_ports) ==
    /\ kcalls[c].op = "idle"
    /\ kcalls' = [kcalls EXCEPT ![c] =
                     [IdleCall EXCEPT !.op = "clean_dhcp_opts",
                                      !.pc = "get",
                                      !.command = "config-get",
                                      !.ports = task_ports,
                                      !.port = 1,
                                      !.remove = TRUE,
                                      !.reserved_before =
                                          Reserved(kea.reservations)]]
    /\ UNCHANGED <<kea, bmc_node, engine>>
    /\ UNCHANGED <<lookupVars, ruleVars, pathVars, runbookVars>>

\* Lines 114-117 and the loops at 140-144 and 149-153: the update of one port
\* returned updated; the next port, or the return of success.
NextPort(k, updated) ==
    LET success == k.success /\ updated
    IN  IF k.port < Len(k.ports)
        THEN [k EXCEPT !.port = k.port + 1, !.pc = "get",
                       !.command = "config-get", !.outcomes = <<>>,
                       !.config = <<>>, !.success = success]
        ELSE [k EXCEPT !.pc = "done", !.command = "none",
                       !.outcomes = <<>>, !.config = <<>>,
                       !.success = success,
                       !.result = IF success THEN "True" ELSE "False"]

\* One iteration of the loop of _make_request in the call of c, with what
\* follows it when the function ends there.  outcome: of the request;
\* applied: the server took the configuration of a config-set (it may have
\* although the response timed out).
kea_attempt(c, outcome, applied) ==
    LET k == kcalls[c]
        sends == kea.max_retries > 0
        verdict == IF sends
                   THEN AfterAttempt(kea.max_retries, Len(k.outcomes), outcome)
                   ELSE "fall through"
        outcomes == IF sends THEN Append(k.outcomes, outcome) ELSE k.outcomes
    IN  /\ k.pc \in {"request", "get", "set"}
        /\ applied => (sends /\ k.pc = "set" /\ outcome \in {"ok", "timeout"})
        /\ (sends /\ k.pc = "set" /\ outcome = "ok") => applied
        /\ kea' = IF applied THEN [kea EXCEPT !.reservations = k.config]
                  ELSE kea
        /\ kcalls' = [kcalls EXCEPT ![c] =
               IF verdict = "retry"
               THEN [k EXCEPT !.outcomes = outcomes]
               ELSE IF k.pc = "request"
               THEN [k EXCEPT !.outcomes = outcomes,
                              !.pc = "done",
                              !.result = IF verdict = "return"
                                         THEN "response"
                                         ELSE IF verdict = "raise"
                                         THEN "DHCPConfigurationError"
                                         ELSE "None"]
               ELSE IF k.pc = "get"
               THEN IF verdict = "return"
                    THEN [k EXCEPT !.pc = "set",
                                   !.command = "config-set",
                                   !.outcomes = <<>>,
                                   !.config = Reserve(kea.reservations,
                                                      k.ports[k.port],
                                                      k.options, k.remove)]
                    ELSE NextPort(k, FALSE)
               ELSE NextPort(k, verdict # "raise")]
        /\ UNCHANGED <<bmc_node, engine>>
        /\ UNCHANGED <<lookupVars, ruleVars, pathVars, runbookVars>>

\* The caller takes the result.
kea_return(c) ==
    /\ kcalls[c].pc = "done"
    /\ kcalls' = [kcalls EXCEPT ![c] = IdleCall]
    /\ UNCHANGED <<kea, bmc_node, engine>>
    /\ UNCHANGED <<lookupVars, ruleVars, pathVars, runbookVars>>

\* One thread updating and cleaning the reservations of nodes.
NextKea ==
    \/ \E task_ports \in PortLists, options \in DhcpOptions :
          update_dhcp_opts(1, task_ports, options)
    \/ \E task_ports \in PortLists : clean_dhcp_opts(1, task_ports)
    \/ \E outcome \in HttpOutcomes, applied \in BOOLEAN :
          kea_attempt(1, outcome, applied)
    \/ kea_return(1)

\* Two threads, each updating the reservation of one port at a time, on a
\* server whose requests are answered or refused.
NextKeaRace ==
    \/ \E c \in KeaCallers, hw_address \in HwAddrs,
          options \in DhcpOptions \ {<<>>} :
          update_dhcp_opts(c, <<hw_address>>, options)
    \/ \E c \in KeaCallers, outcome \in {"ok", "error"} :
          kea_attempt(c, outcome, outcome = "ok" /\ kcalls[c].pc = "set")
    \/ \E c \in KeaCallers : kea_return(c)

\* One thread making one request at a time.
NextRequest ==
    \/ \E command \in Commands : _make_request(1, command)
    \/ \E outcome \in HttpOutcomes : kea_attempt(1, outcome, FALSE)
    \/ kea_return(1)

\* The default max_retries (conf/kea.py line 31), no reservation, no call.
KeaInit ==
    /\ kea = [max_retries |-> 3, reservations |-> <<>>]
    /\ kcalls = [c \in KeaCallers |-> IdleCall]

(***************************************************************************)
(* cache_lookup_addresses (ironic/drivers/modules/inspect_utils.py)        *)
(***************************************************************************)
\* Names of driver_info fields, as their words between underscores.
DriverInfoNames ==
    {<<"ipmi", "address">>, <<"redfish", "address">>, <<"ipmi", "username">>}

\* name.endswith('_address') and name.startswith('ipmi_').
EndsWithAddress(name) == Len(name) > 1 /\ name[Len(name)] = "address"

StartsWithIpmi(name) == Len(name) > 1 /\ name[1] = "ipmi"

\* A driver_info value: a host, possibly in brackets, possibly inside a URL
\* (which may have no host at all).
NoHost == "None"

Plain(host) == [url |-> FALSE, brackets |-> FALSE, host |-> host]

Bracketed(host) == [url |-> FALSE, brackets |-> TRUE, host |-> host]

Url(host) == [url |-> TRUE, brackets |-> FALSE, host |-> host]

AddressValues ==
    {Plain("10.0.0.1"), Plain("127.0.0.1"), Plain("bmc.example.com"),
     Plain("unknown.example.com"), Plain("localhost"),
     Plain("lo.example.com"), Bracketed("2001:db8::1"),
     Url("bmc.example.com"), Url(NoHost)}

\* socket.getaddrinfo: the addresses of a literal or of a name; a name in
\* Unresolvable raises gaierror.
Unresolvable == {"unknown.example.com"}

getaddrinfo(host) ==
    IF host = "bmc.example.com" THEN {"10.0.0.1", "2001:db8::1"}
    ELSE IF host = "localhost" THEN {"127.0.0.1", "::1"}
    ELSE IF host = "lo.example.com" THEN {"127.0.0.1"}
    ELSE IF host \in Unresolvable THEN {}
    ELSE {host}

\* utils.is_loopback: a loopback IP address, or one of the local names.
is_loopback(hostname_or_ip) ==
    hostname_or_ip \in {"127.0.0.1", "::1", "localhost",
                        "localhost.localdomain"}

\* Lines 366-370: the host of a URL, brackets stripped.  None.strip raises
\* AttributeError.
HostOf(address) == address.host

HostRaises(address) == address.url /\ address.host = NoHost

\* A variant that reads the ipmi_ fields also when bridging is enabled.
FieldSkipped_NoBridging(name, bridging) == ~EndsWithAddress(name)

\* Lines 354-364: the fields that are not looked at.
FieldSkipped(name, bridging) ==
    \/ ~EndsWithAddress(name)
    \/ (StartsWithIpmi(name) /\ bridging)

\* Lines 366-391 for one field: the addresses it adds to the result.
FieldAddresses(address) ==
    IF HostOf(address) \in Unresolvable
    THEN {}
    ELSE {ip \in getaddrinfo(HostOf(address)) : ~is_loopback(ip)}
             \cup (IF is_loopback(HostOf(address))
                   THEN {} ELSE {HostOf(address)})

\* Lines 340-393.  bridging: ipmitool.is_bridging_enabled(node).
_get_bmc_addresses(driver_info, bridging) ==
    LET read == {name \in DOMAIN driver_info :
                    ~FieldSkipped(name, bridging)}
    IN  IF \E name \in read : HostRaises(driver_info[name])
        THEN [raised |-> TRUE, result |-> {}]
        ELSE [raised |-> FALSE,
              result |-> UNION {FieldAddresses(driver_info[name]) :
                                   name \in read}]

\* driver_internal_info[LOOKUP_CACHE_FIELD]: absent, or a list of addresses
\* (kept as the set of its elements).
NoCache == [present |-> FALSE, addresses |-> {}]

Cached(addresses) == [present |-> TRUE, addresses |-> addresses]

NoBmcNode ==
    [driver_info |-> <<>>, bridging |-> FALSE, cache |-> NoCache,
     cache_before |-> NoCache, outcome |-> "not called"]

\* The nodes cache_lookup_addresses is given: up to two address fields and a
\* field that is no address, with or without bridging, and a cache left by
\* an earlier inspection or none.
DriverInfos ==
    {di \in UNION {[names -> AddressValues] :
                      names \in SUBSET DriverInfoNames} :
        <<"ipmi", "username">> \in DOMAIN di
            => di[<<"ipmi", "username">>] = Plain("10.0.0.1")}

BmcNodes ==
    [driver_info : DriverInfos,
     bridging : BOOLEAN,
     cache : {NoCache, Cached({"192.0.2.9"})},
     cache_before : {NoCache},
     outcome : {"not called"}]

\* Lines 396-407, with clear_lookup_addresses (410-412).
cache_lookup_addresses ==
    LET addresses == _get_bmc_addresses(bmc_node.driver_info,
                                        bmc_node.bridging)
    IN  /\ bmc_node.outcome = "not called"
        /\ bmc_node' =
               [bmc_node EXCEPT
                   !.cache_before = bmc_node.cache,
                   !.outcome = IF addresses.raised
                               THEN "AttributeError" ELSE "returned",
                   !.cache = IF addresses.raised THEN bmc_node.cache
                             ELSE IF addresses.result # {}
                             THEN Cached(addresses.result)
                             ELSE NoCache]
        /\ UNCHANGED <<keaVars, engine>>
        /\ UNCHANGED <<lookupVars, ruleVars, pathVars, runbookVars>>

\* The next inspection of the node: the cache stays as the call left it.
next_inspection ==
    /\ bmc_node.outcome # "not called"
    /\ bmc_node' = [bmc_node EXCEPT !.outcome = "not called",
                                    !.cache_before = NoCache]
    /\ UNCHANGED <<keaVars, engine>>
    /\ UNCHANGED <<lookupVars, ruleVars, pathVars, runbookVars>>

NextCache == cache_lookup_addresses \/ next_inspection

(***************************************************************************)
(* The rule evaluation engine (spec.md section 4.4)                        *)
(*                                                                         *)
(* The controller of inspection_rule.py stores what the engine runs: the   *)
(* conditions with their 'multiple' and 'invert' (conditions_schema, lines *)
(* 64-101) and the actions as a list (_validate_actions, lines 181-204).   *)
(* The engine itself is described by section 4.4 of the specification;     *)
(* the definitions below follow that section, step by step.                *)
(***************************************************************************)
MaxRules == 2

\* A path expression is the name of one key here, and its matches are the
\* values stored under that key, in document order.
Keys == {"x"}

\* The inventory documents of the evaluations.
DataDocuments ==
    {[k \in Keys |-> l] : l \in {<<>>, <<1>>, <<2>>, <<1, 2>>, <<2, 1>>}}

\* The node record before the evaluation: nothing under any key.
BlankNode == [k \in Keys |-> <<>>]

Field(scheme, key) == scheme \o Chars_sep \o <<key>>

EngineCondition(field_, multiple, invert) ==
    [field |-> field_, op |-> "eq", multiple |-> multiple,
     invert |-> invert, params |-> [value |-> 1]]

\* The condition lists of the stored rules: none, one of each multiplicity
\* on the inventory (written without and with the scheme), an inverted
\* one, and one on the node record.
ConditionLists ==
    {<<>>,
     <<EngineCondition(<<"x">>, "all", FALSE)>>,
     <<EngineCondition(Field(Chars_data, "x"), "any", FALSE)>>,
     <<EngineCondition(<<"x">>, "first", FALSE)>>,
     <<EngineCondition(<<"x">>, "any", TRUE)>>,
     <<EngineCondition(Field(Chars_node, "x"), "all", FALSE)>>}

SetAttribute(key, value) ==
    [action |-> "set-attribute", path |-> key, value |-> value]

ExtendAttribute(key, value) ==
    [action |-> "extend-attribute", path |-> key, value |-> value]

\* The action lists of the stored rules: an action that sets x, one that
\* reads x and adds to it, and the two in both orders.
ActionLists ==
    {<<>>,
     <<SetAttribute("x", 1)>>,
     <<ExtendAttribute("x", 2)>>,
     <<SetAttribute("x", 1), ExtendAttribute("x", 2)>>,
     <<ExtendAttribute("x", 2), SetAttribute("x", 1)>>}

StoredRules == [conditions : ConditionLists, actions : ActionLists]

\* The stored rules in their stored order.
RuleLists == UNION {[1..n -> StoredRules] : n \in 0..MaxRules}

\* Section 4.2: a condition plugin's evaluate(value, params) -> bool.
Evaluate(op, value, params) ==
    CASE op = "eq" -> value = params.value

\* Section 4.2: an action plugin's execute(context, params), which mutates
\* context.record.  set-attribute replaces what is under the path;
\* extend-attribute reads it and adds the value at its end.
Execute(record, action) ==
    CASE action.action = "set-attribute" ->
             [record EXCEPT ![action.path] = <<action.value>>]
      [] action.action = "extend-attribute" ->
             [record EXCEPT ![action.path] = Append(@, action.value)]

\* Section 4.4 step 1: "resolve field to (root, path), select the document
\* by root, evaluate the path to get a sequence of matched values".
Matches(field_, node_record, data) ==
    LET root == _parse_path(field_)
        document == IF root.scheme = Chars_node THEN node_record ELSE data
    IN  document[root.path[1]]

\* The values the operator is evaluated against: "first -> operator
\* evaluated only against the first matched value".
EvaluatedValues(multiple, matches) ==
    IF multiple = "first"
    THEN SubSeq(matches, 1, IF Len(matches) = 0 THEN 0 ELSE 1)
    ELSE matches

\* A variant where a condition with no matched value fails whatever its
\* multiplicity.
Multiplicity_NoMatchFails(multiple, held) ==
    /\ held # <<>>
    /\ CASE multiple = "all" -> \A i \in 1..Len(held) : held[i]
         [] multiple = "any" -> \E i \in 1..Len(held) : held[i]
         [] multiple = "first" -> held[1]

\* "all -> operator must hold for every matched value (vacuous-true if zero
\* matches); any -> operator holds for at least one matched value
\* (vacuous-false if zero matches); first -> ... (vacuous-false if zero
\* matches)".  held is the operator's results on the evaluated values.
Multiplicity(multiple, held) ==
    CASE multiple = "all" -> \A i \in 1..Len(held) : held[i]
      [] multiple = "any" -> \E i \in 1..Len(held) : held[i]
      [] multiple = "first" -> held # <<>> /\ held[1]

\* One condition on the two documents: what was matched, what the operator
\* was evaluated against, the multiplicity result and, after "apply invert
\* by logically negating the multiplicity result", the condition's result.
CheckCondition(condition, node_record, data) ==
    LET matches == Matches(condition.field, node_record, data)
        evaluated == EvaluatedValues(condition.multiple, matches)
        held == [i \in 1..Len(evaluated) |->
                     Evaluate(condition.op, evaluated[i], condition.params)]
        reduced == Multiplicity(condition.multiple, held)
    IN  [matches |-> matches, evaluated |-> evaluated, reduced |-> reduced,
         result |-> IF condition.invert THEN ~reduced ELSE reduced]

\* The evaluation of rule_list on node_record and data, before its first
\* rule.
Evaluation(rule_list, data) ==
    [pc |-> IF rule_list = <<>> THEN "done" ELSE "conditions",
     rules |-> rule_list, data |-> data, node |-> BlankNode,
     r |-> 1, c |-> 1, a |-> 1,
     checks |-> <<>>, executed |-> <<>>, matched |-> <<>>]

\* Section 4.4 step 3: on to the rule stored next, or the end.
RuleAfter(e) ==
    [e EXCEPT !.r = @ + 1, !.c = 1, !.a = 1,
              !.pc = IF e.r < Len(e.rules) THEN "conditions" ELSE "done"]

\* A variant that runs a rule's actions from the last to the first.
ActionAt_Reversed(actions, a) == actions[Len(actions) + 1 - a]

\* Section 4.4 step 2: "executes its Actions in list order".
ActionAt(actions, a) == actions[a]

\* A variant that hands every action the record as it was before the
\* evaluation.
ActionContext_Fresh(e) == BlankNode

\* Section 4.4 step 2: "passing a shared execution context (record handle
\* + accumulated prior mutations)".
ActionContext(e) == e.node

\* Section 4.4 step 1: the next condition of the rule; the conditions are
\* ANDed, the first false one ends the rule as not matched.
check_condition ==
    /\ engine.pc = "conditions"
    /\ engine.c <= Len(engine.rules[engine.r].conditions)
    /\ LET condition == engine.rules[engine.r].conditions[engine.c]
           check == CheckCondition(condition, engine.node, engine.data)
           logged == [engine EXCEPT
                          !.checks = Append(@, [rule |-> engine.r,
                                                condition |-> condition,
                                                check |-> check])]
       IN  engine' = IF check.result
                     THEN [logged EXCEPT !.c = @ + 1]
                     ELSE RuleAfter([logged EXCEPT
                                        !.matched = Append(@, FALSE)])
    /\ UNCHANGED <<keaVars, bmc_node>>
    /\ UNCHANGED <<lookupVars, ruleVars, pathVars, runbookVars>>

\* Section 4.4 step 2: every condition held ("vacuously true for an empty
\* condition list"): the rule is matched.
rule_matched ==
    /\ engine.pc = "conditions"
    /\ engine.c > Len(engine.rules[engine.r].conditions)
    /\ LET logged == [engine EXCEPT !.matched = Append(@, TRUE)]
       IN  engine' = IF engine.rules[engine.r].actions = <<>>
                     THEN RuleAfter(logged)
                     ELSE [logged EXCEPT !.pc = "actions"]
    /\ UNCHANGED <<keaVars, bmc_node>>
    /\ UNCHANGED <<lookupVars, ruleVars, pathVars, runbookVars>>

\* Section 4.4 step 2: the next action of the matched rule, on the shared
\* context; section 5: "the target record is mutated in-place across the
\* action list within one evaluation call".
execute_action ==
    /\ engine.pc = "actions"
    /\ LET actions == engine.rules[engine.r].actions
           action == ActionAt(actions, engine.a)
           context == ActionContext(engine)
           after == Execute(context, action)
           logged == [engine EXCEPT
                          !.node = after,
                          !.executed = Append(@, [rule |-> engine.r,
                                                  action |-> action,
                                                  observed |-> context,
                                                  after |-> after])]
       IN  engine' = IF engine.a < Len(actions)
                     THEN [logged EXCEPT !.a = @ + 1]
                     ELSE RuleAfter(logged)
    /\ UNCHANGED <<keaVars, bmc_node>>
    /\ UNCHANGED <<lookupVars, ruleVars, pathVars, runbookVars>>

NextEngine == check_condition \/ rule_matched \/ execute_action

(***************************************************************************)
(* Specifications                                                          *)
(***************************************************************************)
\* No node is being cached and no rule list is being evaluated.
SideInit ==
    /\ bmc_node = NoBmcNode
    /\ engine = Evaluation(<<>>, BlankNode)

RunbookInit ==
    /\ runbooks = {}
    /\ runbooks_before = {}

RuleInit ==
    /\ rules = {}
    /\ request = NoRequest
    /\ response = NotRun
    /\ notifications = <<>>
    /\ trace = NoTrace
    /\ db_calls = <<>>
    /\ events = <<>>

Init ==
    /\ LookupInit
    /\ RuleInit
    /\ RunbookInit
    /\ KeaInit
    /\ SideInit
    /\ field = <<>>
    /\ parsed = NotParsed
    /\ field_check = NotRun

InitPath ==
    /\ LookupInit
    /\ RuleInit
    /\ RunbookInit
    /\ KeaInit
    /\ SideInit
    /\ field \in FieldStrings
    /\ parsed = NotParsed
    /\ field_check = NotRun

\* Any configured max_retries, the server without reservations.
InitKea ==
    /\ LookupInit
    /\ RuleInit
    /\ RunbookInit
    /\ SideInit
    /\ kea \in [max_retries : 0..MaxRetries, reservations : {<<>>}]
    /\ kcalls = [c \in KeaCallers |-> IdleCall]
    /\ field = <<>>
    /\ parsed = NotParsed
    /\ field_check = NotRun

InitCache ==
    /\ LookupInit
    /\ RuleInit
    /\ RunbookInit
    /\ KeaInit
    /\ engine = Evaluation(<<>>, BlankNode)
    /\ bmc_node \in BmcNodes
    /\ field = <<>>
    /\ parsed = NotParsed
    /\ field_check = NotRun

SpecLookup == Init /\ [][NextLookup]_vars

SpecRule == Init /\ [][NextRule]_vars

SpecPath == InitPath /\ [][NextPath]_vars

SpecRunbook == Init /\ [][NextRunbook]_vars

SpecApi == Init /\ [][NextApi]_vars

\* Any stored rule list on any inventory.
InitEngine ==
    /\ LookupInit
    /\ RuleInit
    /\ RunbookInit
    /\ KeaInit
    /\ bmc_node = NoBmcNode
    /\ engine \in {Evaluation(rule_list, data) :
                       rule_list \in RuleLists, data \in DataDocuments}
    /\ field = <<>>
    /\ parsed = NotParsed
    /\ field_check = NotRun

SpecCache == InitCache /\ [][NextCache]_vars

SpecEngine == InitEngine /\ [][NextEngine]_vars

SpecKea == InitKea /\ [][NextKea]_vars

SpecKeaRace == InitKea /\ [][NextKeaRace]_vars

\* requests.post is given a timeout (line 48), so every iteration of the
\* loop comes to its end.
SpecRequest ==
    /\ InitKea
    /\ [][NextRequest]_vars
    /\ WF_vars(\E outcome \in HttpOutcomes : kea_attempt(1, outcome, FALSE))

(***************************************************************************)
(* Claims about lookup_node (checked under SpecLookup)                     *)
(***************************************************************************)
\* The call has finished and no fleet record changed while it ran, so the
\* records as they are now are the records every read of the call saw.
QuietDone == pc = "done" /\ ~interfered

\* The call got to the BMC addresses (line 279).
ReachedBmc == pc = "done" /\ stage \in {"bmc", "fetch"}

\* C1: every failure of lookup_node is the same generic NotFound, with no
\* cause-specific content, whichever branch failed.
C1_EveryFailureIsGenericNotFound ==
    result.kind = "raise" => result.exc = GenericNotFound

\* C2: a call whose MAC addresses resolved R1 (waiting for inspection) and
\* that got to the BMC addresses raises NotFound when the records whose cache
\* meets the BMC addresses are all other than R1, and returns R1 when R1 is
\* among them.
C2_MacRecordAgainstBmcCandidates ==
    (QuietDone /\ ReachedBmc /\ mac_node # NoNode) =>
        LET candidates == CollectNodesByBmc(call.bmc_addresses)
        IN  /\ mac_node.provision_state = INSPECTWAIT
            /\ (candidates # {} /\ mac_node.uuid \notin candidates)
                   => result = Raised(GenericNotFound)
            /\ mac_node.uuid \in candidates => result = Returned(mac_node)

\* C2 witness: R1 found by MAC, R1 and another record both match the BMC
\* addresses, and R1 is returned.
C2_Witness ==
    /\ QuietDone /\ ReachedBmc /\ mac_node # NoNode
    /\ mac_node.uuid \in CollectNodesByBmc(call.bmc_addresses)
    /\ Cardinality(CollectNodesByBmc(call.bmc_addresses)) > 1
    /\ result = Returned(mac_node)

\* C3: with no record resolved by the claimed uuid or the MAC addresses, the
\* lookup returns a record exactly when one single waiting record has a cached
\* address among the BMC addresses, and it returns that record; with several
\* such records, or none, it raises NotFound.
C3_BmcOnlyResolution ==
    (QuietDone /\ ReachedBmc /\ call.node_uuid = 0 /\ mac_node = NoNode) =>
        LET candidates == CollectNodesByBmc(call.bmc_addresses)
        IN  /\ Cardinality(candidates) = 1
                => \E u \in candidates : result = Returned(NodeObject(u))
            /\ Cardinality(candidates) # 1
                => result = Raised(GenericNotFound)

\* C3 witness: no uuid, no MAC match, two waiting records of which exactly one
\* matches the BMC addresses, and that one is returned.
C3_Witness ==
    /\ QuietDone /\ ReachedBmc /\ call.node_uuid = 0 /\ mac_node = NoNode
    /\ Cardinality(Node_list(INSPECTWAIT)) > 1
    /\ Cardinality(CollectNodesByBmc(call.bmc_addresses)) = 1
    /\ result.kind = "return"
    /\ result.node.uuid \in CollectNodesByBmc(call.bmc_addresses)

\* C4: with an existing claimed uuid, MAC addresses that resolve to a record
\* with another uuid make the lookup raise NotFound; MAC addresses that
\* resolve to no record leave the record fetched by the claimed uuid as the
\* resolved record.
C4_UuidAgainstMac ==
    (call.node_uuid # 0 /\ stage \in {"mac", "bmc", "fetch"}) =>
        /\ (mac_node # NoNode /\ mac_node.uuid # call.node_uuid)
               => (pc = "done" /\ result = Raised(GenericNotFound))
        /\ mac_node = NoNode
               => (node # NoNode /\ node.uuid = call.node_uuid)

\* C4 witness: the claimed record exists and the MAC addresses belong to
\* another record.
C4_Witness ==
    /\ call.node_uuid # 0 /\ stage = "mac" /\ pc = "done"
    /\ node_uuid \in Nodes /\ nodes[node_uuid].exists
    /\ mac_node # NoNode /\ mac_node.uuid # call.node_uuid
    /\ result = Raised(GenericNotFound)

\* C5: a record returned by lookup_node is in provision state INSPECTWAIT,
\* also when other actors change records between the reads of the call.
C5_ReturnedRecordWaitsForInspection ==
    result.kind = "return" => result.node.provision_state = INSPECTWAIT

(***************************************************************************)
(* Claims about rule creation and validation (checked under SpecRule)      *)
(***************************************************************************)
\* What the specification asks of one condition entry: the schema, a
\* registered operator, a node or data scheme, a path that parses and
\* parameters the operator accepts.
WellFormedCondition(c) ==
    /\ ConditionItemValid(c)
    /\ _parse_path(c["field"].val).scheme \in {Chars_node, Chars_data}
    /\ JsonPathParses(_parse_path(c["field"].val).path)
    /\ PluginValidates(ConditionPlugins, c["op"].val,
                       [k \in DOMAIN c \ {"op", "field", "multiple", "invert"}
                            |-> c[k]])

\* What the specification asks of one action entry.
WellFormedAction(a) ==
    /\ ActionItemValid(a)
    /\ PluginValidates(ActionPlugins, a["action"].val,
                       [k \in DOMAIN a \ {"action"} |-> a[k]])

\* C6: when the validation of the conditions or of the actions fails in
\* post, the stored rules are what they were and no notification is emitted;
\* create() is called only after both validations succeeded.
C6_PostIsAllOrNothing ==
    request.handler = "post" =>
        /\ (trace.conditions.exc # "none" \/ trace.actions.exc # "none")
               => /\ rules = trace.rules_before
                  /\ notifications = <<>>
                  /\ ~trace.create_called
        /\ trace.create_called
               => (trace.conditions.exc = "none" /\ trace.actions.exc = "none")

\* C6 witness: a post whose validation raised, with a rule in the store.
C6_Witness ==
    /\ request.handler = "post"
    /\ trace.conditions.exc \notin {"none", "not run"}
    /\ request.body.actions.present
    /\ rules # {}
    /\ rules = trace.rules_before
    /\ notifications = <<>>

\* C7: _validate_conditions returns the validated list or fails with Invalid;
\* no rejection surfaces as another error.
C7_ConditionsFailOnlyWithInvalid ==
    request.handler = "_validate_conditions"
        => response.exc \in {"none", "Invalid"}

\* C8: _validate_conditions accepts a well-formed list, and what it returns
\* for an accepted list has the length and order of the input, its i-th
\* element being (field, op, multiple or 'any', invert or false, the entry
\* without op, field, multiple and invert).
C8_AcceptedConditionsKeepShape ==
    (/\ request.handler = "_validate_conditions"
     /\ (response.exc = "none"
         \/ \A i \in 1..Len(request.body) :
                WellFormedCondition(request.body[i])))
    => /\ response.exc = "none"
       /\ Len(response.value) = Len(request.body)
       /\ \A i \in 1..Len(request.body) :
              LET c == request.body[i]
              IN  response.value[i] =
                      <<c["field"].val,
                        c["op"].val,
                        IF "multiple" \in DOMAIN c
                        THEN c["multiple"].val ELSE "any",
                        IF "invert" \in DOMAIN c
                        THEN c["invert"].val ELSE "false",
                        [k \in DOMAIN c \ {"op", "field", "multiple", "invert"}
                             |-> c[k]]>>

\* C9: for a post with an empty (or absent) condition list on an API version
\* that allows rules: absent or empty actions, an unknown action or rejected
\* parameters fail with Invalid; well-formed actions are accepted; and every
\* rule that post stores has a non-empty list of well-formed actions.
C9_PostRequiresValidActions ==
    (/\ request.handler = "post"
     /\ trace.conditions.exc # "not run"
     /\ Get(request.body.conditions, <<>>) = <<>>)
    => LET actions_json == Get(request.body.actions, <<>>)
           well_formed == /\ actions_json # <<>>
                          /\ \A i \in 1..Len(actions_json) :
                                 WellFormedAction(actions_json[i])
       IN  /\ ~well_formed => response.exc = "Invalid"
           /\ (well_formed /\ ~trace.create_called) => response.exc = "none"
           /\ trace.create_called => well_formed

(***************************************************************************)
(* Claims about _parse_path (checked under SpecPath)                       *)
(***************************************************************************)
\* The string holds "://" somewhere.
HasSeparator(str) ==
    \E i \in 1..Len(str) :
        /\ i + 2 <= Len(str)
        /\ str[i] = ":" /\ str[i + 1] = "/" /\ str[i + 2] = "/"

\* C10: for a field string without "://", _parse_path returns the scheme
\* data and the string unchanged as the path.
C10_NoSeparatorParsesAsData ==
    (parsed.returned /\ ~HasSeparator(field))
        => (parsed.scheme = Chars_data /\ parsed.path = field)

\* C10 witness: a string with a colon and slashes, but never "://" in a row.
C10_Witness ==
    /\ parsed.returned
    /\ ~HasSeparator(field)
    /\ \E i, j \in 1..Len(field) : field[i] = ":" /\ field[j] = "/"
    /\ parsed.scheme = Chars_data
    /\ parsed.path = field

\* The part of a string before its first "://".
BeforeSeparator(str) ==
    SubSeq(str, 1, Min({i \in 1..(Len(str) - 2) :
                            HasSeparator(SubSeq(str, 1, i + 2))}) - 1)

\* C11: parsing scheme + "://" + path, for scheme node or data, gives that
\* scheme and that path, whatever "://" the path holds; a condition whose
\* field has anything else before its first "://" is rejected with Invalid.
C11_SchemeRoundTrip ==
    /\ parsed.returned =>
           \A scheme \in {Chars_node, Chars_data} :
               \A n \in 0..Len(field) :
                   LET path == SubSeq(field, Len(field) - n + 1, Len(field))
                   IN  field = scheme \o Chars_sep \o path
                           => (parsed.scheme = scheme /\ parsed.path = path)
    /\ (/\ field_check.exc # "not run"
        /\ HasSeparator(field)
        /\ BeforeSeparator(field) \notin {Chars_node, Chars_data})
           => field_check.exc = "Invalid"

(***************************************************************************)
(* Claims about runbooks (checked under SpecRunbook)                       *)
(***************************************************************************)
\* The (interface, step) pairs that more than one step of the list has.
RepeatedPairs(steps) ==
    {<<steps[i].interface, steps[i].step>> :
        i \in {i \in DOMAIN steps :
                  \E j \in DOMAIN steps :
                      /\ j # i
                      /\ steps[j].interface = steps[i].interface
                      /\ steps[j].step = steps[i].step}}

\* C12: duplicate_steps raises InvalidRunbook exactly when some (interface,
\* step) pair occurs in more than one step; the error lists every such pair
\* once and no other pair; without duplicates the value comes back unchanged.
C12_DuplicateStepsRejected ==
    request.handler = "duplicate_steps" =>
        LET repeated == RepeatedPairs(request.body.steps.items)
        IN  /\ (response.exc = "InvalidRunbook") <=> (repeated # {})
            /\ response.exc = "InvalidRunbook" =>
                   /\ Len(response.listing) = Cardinality(repeated)
                   /\ \A pair \in repeated :
                          Cardinality({i \in DOMAIN response.listing :
                              response.listing[i] = FormatDuplicate(pair)}) = 1
            /\ repeated = {} =>
                   (response.exc = "none" /\ response.value = request.body)

\* C12 witness: a list with two duplicated pairs, both named in the error.
C12_Witness ==
    /\ request.handler = "duplicate_steps"
    /\ Cardinality(RepeatedPairs(request.body.steps.items)) = 2
    /\ response.exc = "InvalidRunbook"
    /\ Len(response.listing) = 2

\* C13: no stored runbook is public and has an owner, and a create request
\* with public=true and an owner is rejected, whatever the caller's scope.
C13_PublicRunbookHasNoOwner ==
    /\ \A r \in runbooks : ~(r.public = "true" /\ r.owner \in Projects)
    /\ (/\ request.handler = "RunbooksController.post"
        /\ request.body.runbook.public = "true"
        /\ request.body.runbook.owner \in Projects)
           => response.exc # "none"

\* The patch request in progress makes public true, on a runbook that was
\* stored with one of the owners.
PublicPatchOn(owners) ==
    /\ request.handler = "RunbooksController.patch"
    /\ LET public == get_patch_values(request.body.patch, "/public")
       IN  public # <<>> /\ public[Len(public)].scalar = "true"
    /\ \E r \in runbooks_before :
           r.uuid = request.body.runbook_ident /\ r.owner \in owners

\* C14 as stated: a patch that sets public=true on a stored runbook with an
\* owner is rejected and leaves the stored runbook unchanged.
C14_PublicPatchOnOwnedRejected ==
    PublicPatchOn(Projects) =>
        (response.exc # "none" /\ runbooks = runbooks_before)

\* C14 as amended: such a patch is rejected with PatchError, the stored
\* runbook unchanged, when it also gives an owner; when it gives none it
\* either fails for another reason, the stored runbook unchanged, or is
\* saved with public true and the owner cleared.
C14_PublicPatchClearsOwner ==
    PublicPatchOn(Projects \cup {""}) =>
        IF get_patch_values(request.body.patch, "/owner") # <<>>
        THEN response.exc = "PatchError" /\ runbooks = runbooks_before
        ELSE \/ response.exc # "none" /\ runbooks = runbooks_before
             \/ /\ response.exc = "none"
                /\ \E r \in runbooks :
                       /\ r.uuid = request.body.runbook_ident
                       /\ r.public = "true"
                       /\ r.owner = Null
                       /\ runbooks = {r}

\* C14 witness: the patch public=true alone was saved on an owned runbook.
C14_Witness ==
    /\ PublicPatchOn(Projects)
    /\ Len(request.body.patch) = 1
    /\ response.exc = "none"
    /\ \E r \in runbooks_before : r.owner \in Projects /\ r.public = "false"
    /\ \E r \in runbooks : r.public = "true" /\ r.owner = Null

\* A create request that passed the validator has been answered.
ValidatedCreate ==
    /\ request.handler = "RunbooksController.post"
    /\ response.exc \notin {"InvalidParameterValue", "InvalidRunbook"}

\* What a caller without system scope 'all' gets: an owner other than the
\* caller's project is refused with Invalid and nothing is created, and
\* whatever is created is owned by the caller's project.
ScopedCreateKeepsProject ==
    LET rb == request.body.runbook
        caller == request.body.cdict
    IN  caller.system_scope # "all" =>
            IF Truthy(rb.owner) /\ rb.owner # caller.project_id
            THEN response.exc = "Invalid" /\ runbooks = runbooks_before
            ELSE \A r \in runbooks \ runbooks_before :
                     r.owner = caller.project_id

\* C15 as stated: for a create by a caller without system scope 'all', an
\* owner other than the caller's project id is rejected with Invalid and
\* nothing is created, otherwise the created runbook is owned by the caller's
\* project; only a system-scoped caller creates a runbook whose owner is
\* another project or null.
C15_OnlySystemScopeCreatesUnowned ==
    ValidatedCreate =>
        /\ ScopedCreateKeepsProject
        /\ \A r \in runbooks \ runbooks_before :
               (r.owner = Null \/ r.owner # request.body.cdict.project_id)
                   => request.body.cdict.system_scope = "all"

\* C15 as amended: the same, except that a runbook with a null owner is also
\* created by a caller without system scope that has no project id.
C15_OwnerIsCallersProject ==
    ValidatedCreate =>
        /\ ScopedCreateKeepsProject
        /\ \A r \in runbooks \ runbooks_before :
               /\ r.owner # request.body.cdict.project_id
                      => request.body.cdict.system_scope = "all"
               /\ r.owner = Null
                      => \/ request.body.cdict.system_scope = "all"
                         \/ request.body.cdict.project_id = Null

\* C15 witness: a caller of project p1 asked for owner p2 and was refused.
C15_Witness ==
    /\ ValidatedCreate
    /\ request.body.cdict = [system_scope |-> Null, project_id |-> "p1"]
    /\ request.body.runbook.owner = "p2"
    /\ response.exc = "Invalid"
    /\ runbooks = runbooks_before

\* The patch request in progress ends with its steps removed, empty or with
\* a repeated pair.
PatchBreaksSteps ==
    /\ request.handler = "RunbooksController.patch"
    /\ runbooks_before # {}
    /\ LET OnSteps(p) == p.path = "/steps"
           ops == SelectSeq(request.body.patch, OnSteps)
       IN  /\ ops # <<>>
           /\ LET last == ops[Len(ops)]
              IN  \/ last.op = "remove"
                  \/ last.value.items = <<>>
                  \/ RepeatedPairs(last.value.items) # {}

\* C16: every stored runbook has at least one step and no (interface, step)
\* pair twice; a patch that would break this is rejected before save() and
\* changes nothing.
C16_StoredStepsValid ==
    /\ \A r \in runbooks : Len(r.steps) >= 1 /\ RepeatedPairs(r.steps) = {}
    /\ PatchBreaksSteps =>
           /\ response.exc # "none"
           /\ \A i \in DOMAIN db_calls : db_calls[i][1] # "save"
           /\ notifications = <<>>
           /\ runbooks = runbooks_before

\* C16 witness: a patch that repeats a pair was refused as InvalidRunbook.
C16_Witness ==
    /\ PatchBreaksSteps
    /\ response.exc = "InvalidRunbook"
    /\ runbooks = runbooks_before
    /\ \E r \in runbooks : Len(r.steps) = 2

(***************************************************************************)
(* Claims about the inspection-rule requests (checked under SpecRule)      *)
(***************************************************************************)
\* C18: on an API version that does not allow inspection rules a GET request
\* fails with 404 Not Found and any other request with 405 Method Not
\* Allowed, and no rule is read, created, changed or destroyed.
C18_DisallowedVersionRejected ==
    request.handler = "_route" =>
        /\ request.body.http_method = "GET" => response.exc = "HTTPNotFound"
        /\ request.body.http_method # "GET"
               => response.exc = "HTTPMethodNotAllowed"
        /\ db_calls = <<>>
        /\ notifications = <<>>
        /\ rules = trace.rules_before

\* C18 witness: a DELETE on such a version was answered 405, the rules kept.
C18_Witness ==
    /\ request.handler = "_route"
    /\ request.body.http_method = "DELETE"
    /\ response.exc = "HTTPMethodNotAllowed"
    /\ rules # {}
    /\ rules = trace.rules_before

\* A DELETE request on an allowed version has been answered.
DeleteAnswered ==
    /\ request.handler = "delete"
    /\ request.body.allowed

\* C19: DELETE of a stored rule by uuid destroys that rule, once, with its
\* conditions and actions: afterwards neither get nor list returns it, and
\* the other stored rules are as they were.
C19_DeleteDestroysTheRule ==
    (/\ DeleteAnswered
     /\ \E r \in trace.rules_before : r.uuid = request.body.inspection_rule_ident)
    => LET uuid == request.body.inspection_rule_ident
       IN  /\ response.exc = "none"
           /\ Len(SelectSeq(db_calls, IsWrite)) = 1
           /\ <<"destroy", uuid>> \in {db_calls[i] : i \in DOMAIN db_calls}
           /\ InspectionRule_get_by_uuid(uuid) = {}
           /\ InspectionRule_list = {r \in trace.rules_before : r.uuid # uuid}

\* C20: after DELETE /inspection_rules/all the list of rules is empty,
\* whatever was stored before.
C20_DeleteAllEmptiesTheList ==
    (DeleteAnswered /\ request.body.inspection_rule_ident = "all")
        => InspectionRule_list = {}

(***************************************************************************)
(* Claims about notifications (checked under SpecApi)                      *)
(***************************************************************************)
\* The positions in the request's events of a notification.
NotifiedAt(operation, status) ==
    {i \in DOMAIN events : events[i] = <<"notify", operation, status>>}

\* The positions of its persistence operations, and the operation each is
\* announced as.
PersistedAt ==
    {i \in DOMAIN events :
        events[i][1] = "db" /\ events[i][2] \in {"create", "save", "destroy"}}

AnnouncedAs(db_operation) ==
    IF db_operation = "save" THEN "update"
    ELSE IF db_operation = "destroy" THEN "delete" ELSE "create"

\* C17: a request that reaches persistence emits the start notification
\* before the persistence operation; the end notification comes only after
\* the operation succeeded; when it raises, a failure notification is
\* emitted, the request fails and no end follows; each start is followed by
\* exactly one end or failure notification of the same operation.
C17_NotificationsBracketPersistence ==
    /\ \A w \in PersistedAt :
           \E s \in NotifiedAt(AnnouncedAs(events[w][2]), "start") : s < w
    /\ \A operation \in {"create", "update", "delete"} :
           /\ \A e \in NotifiedAt(operation, "end") :
                  /\ response.exc = "none"
                  /\ \E w \in PersistedAt :
                         w < e /\ AnnouncedAs(events[w][2]) = operation
           /\ NotifiedAt(operation, "error") # {}
                  => /\ response.exc # "none"
                     /\ NotifiedAt(operation, "end") = {}
           /\ \A s \in NotifiedAt(operation, "start") :
                  Cardinality({i \in NotifiedAt(operation, "end")
                                       \cup NotifiedAt(operation, "error") :
                                   i > s}) = 1

\* C17 witness: save() raised in a runbook update; start, save, failure.
C17_Witness ==
    /\ request.handler = "RunbooksController.patch"
    /\ response.exc = "DBError"
    /\ Len(events) = 4
    /\ events[2] = <<"notify", "update", "start">>
    /\ events[3][2] = "save"
    /\ events[4] = <<"notify", "update", "error">>

(***************************************************************************)
(* The returned record against the evidence (checked under SpecLookup)     *)
(***************************************************************************)
\* C29: a record returned by lookup_node agrees with every piece of evidence
\* that resolved: it has the claimed uuid when one was given, it is the
\* record the MAC addresses resolved to when they resolved, and it is one of
\* the waiting records whose cached addresses met the BMC addresses when
\* there was any.
C29_ReturnedAgreesWithEvidence ==
    result.kind = "return" =>
        /\ call.node_uuid # 0 => result.node.uuid = call.node_uuid
        /\ mac_node # NoNode => result.node.uuid = mac_node.uuid
        /\ nodes_by_bmc # {} => result.node.uuid \in nodes_by_bmc

\* C29 witness: a record returned with all three kinds of evidence resolved,
\* another waiting record sharing the BMC address.
C29_Witness ==
    /\ result.kind = "return"
    /\ call.node_uuid # 0
    /\ mac_node # NoNode
    /\ Cardinality(nodes_by_bmc) > 1
    /\ result.node.uuid = call.node_uuid

(***************************************************************************)
(* Rule identity and the order of validation (checked under SpecRule)      *)
(***************************************************************************)
\* A post on an allowed API version whose conditions and actions are
\* well-formed and whose uuid, when it gives one, is not stored yet.
WellFormedPost ==
    /\ request.handler = "post"
    /\ trace.conditions.exc # "not run"
    /\ \A i \in 1..Len(Get(request.body.conditions, <<>>)) :
           WellFormedCondition(Get(request.body.conditions, <<>>)[i])
    /\ Get(request.body.actions, <<>>) # <<>>
    /\ \A i \in 1..Len(Get(request.body.actions, <<>>)) :
           WellFormedAction(Get(request.body.actions, <<>>)[i])
    /\ request.body.uuid \notin {r.uuid : r \in trace.rules_before}

\* C21: the rule that post creates has the uuid of the request when it gives
\* one and a fresh generated uuid when it gives none, and is retrievable
\* under that uuid; the rules stored before keep their uuids.
C21_CreatedRuleKeepsItsUuid ==
    WellFormedPost =>
        /\ response.exc = "none"
        /\ \E r \in rules \ trace.rules_before :
               /\ rules = trace.rules_before \cup {r}
               /\ response.value = <<r.uuid>>
               /\ InspectionRule_get_by_uuid(r.uuid) = {r}
               /\ IF request.body.uuid # ""
                  THEN r.uuid = request.body.uuid
                  ELSE /\ r.uuid \in GeneratedUuids
                       /\ r.uuid \notin {s.uuid : s \in trace.rules_before}

\* What the specification has the checks of one schema-valid entry report:
\* the scheme, then the path, then the operator's parameters.
EntryDefect(c) ==
    IF _parse_path(c["field"].val).scheme \notin {Chars_node, Chars_data}
    THEN "Unsupported scheme for field"
    ELSE IF ~JsonPathParses(_parse_path(c["field"].val).path)
    THEN "Unable to parse field JSON path"
    ELSE IF ~PluginValidates(ConditionPlugins, c["op"].val,
                             [k \in DOMAIN c \ {"op", "field", "multiple",
                                                "invert"} |-> c[k]])
    THEN "Invalid parameters for operator"
    ELSE "none"

ListDefect(l) ==
    IF \E i \in 1..Len(l) : ~ConditionItemValid(l[i])
    THEN "Validation failed for conditions"
    ELSE LET failing == {i \in 1..Len(l) : EntryDefect(l[i]) # "none"}
         IN  IF failing = {} THEN "none" ELSE EntryDefect(l[Min(failing)])

\* C27: a schema failure anywhere in the condition list is reported before
\* any check of an entry; then the entries are checked in list order, the
\* scheme before the path before the operator's parameters; in post the
\* conditions are validated before the actions, and every validation error
\* is raised before create() is called.
C27_ValidationPrecedence ==
    /\ request.handler = "_validate_conditions"
           => response.msg = ListDefect(request.body)
    /\ (request.handler = "post" /\ trace.conditions.exc # "not run")
           => LET defect == ListDefect(Get(request.body.conditions, <<>>))
              IN  /\ defect # "none"
                      => /\ response.msg = defect
                         /\ trace.actions.exc = "not run"
                  /\ response.exc \notin {"none", "InspectionRuleAlreadyExists"}
                      => ~trace.create_called

(***************************************************************************)
(* Claims about the Kea client                                             *)
(***************************************************************************)
\* A _make_request called on its own has ended.
RequestEnded(c) ==
    /\ kcalls[c].op = "_make_request"
    /\ kcalls[c].pc = "done"

Succeeded(outcomes) == \E i \in DOMAIN outcomes : outcomes[i] = "ok"

\* C22 (under SpecRequest): a _make_request whose attempts all failed, by
\* timeout or by another request failure, raises DHCPConfigurationError; it
\* returns normally only with a successful response.
C22_ExhaustedRetriesRaise ==
    \A c \in KeaCallers :
        (RequestEnded(c) /\ kcalls[c].outcomes # <<>>) =>
            IF Succeeded(kcalls[c].outcomes)
            THEN kcalls[c].result = "response"
            ELSE kcalls[c].result = "DHCPConfigurationError"

\* C23 (under SpecRequest): one _make_request sends at most max_retries
\* requests, sends none after a successful one and returns its response,
\* sends another after a failure only while attempts remain, and always
\* ends.
C23_BoundedRetriesTerminate ==
    /\ [](LET k == kcalls[1]
              n == Len(k.outcomes)
          IN  k.op = "_make_request" =>
                  /\ n <= kea.max_retries
                  /\ \A i \in 1..(n - 1) : k.outcomes[i] # "ok"
                  /\ k.pc = "request" => (n = 0 \/ n < kea.max_retries)
                  /\ (k.pc = "done" /\ Succeeded(k.outcomes))
                         => k.result = "response"
                  /\ (k.pc = "done" /\ ~Succeeded(k.outcomes))
                         => n = kea.max_retries)
    /\ (kcalls[1].pc = "request") ~> (kcalls[1].pc = "done")

\* C23 witness: the response came on the last of three attempts, after a
\* timeout and another failure.
C23_Witness ==
    /\ RequestEnded(1)
    /\ kea.max_retries = 3
    /\ kcalls[1].outcomes = <<"timeout", "error", "ok">>
    /\ kcalls[1].result = "response"

\* C28 (under SpecKea): after clean_dhcp_opts returned True no reservation
\* of an address of the node's ports carries options, and an address that
\* had no reservation before has none.
C28_CleanLeavesNoOptions ==
    LET k == kcalls[1]
        addresses == {k.ports[i] : i \in DOMAIN k.ports}
    IN  (k.op = "clean_dhcp_opts" /\ k.pc = "done" /\ k.result = "True") =>
            /\ \A i \in DOMAIN kea.reservations :
                   kea.reservations[i].hw_address \in addresses
                       => kea.reservations[i].option_data = NoOptions
            /\ \A hw_address \in addresses \ k.reserved_before :
                   hw_address \notin Reserved(kea.reservations)

\* C30 (under SpecKeaRace): when two _update_host_reservation calls for
\* different hardware addresses have both returned True, the configuration
\* holds both reservations with their option data, and never two
\* reservations of one address.
C30_ConcurrentUpdatesKept ==
    (/\ \A c \in KeaCallers :
            /\ kcalls[c].op = "update_dhcp_opts"
            /\ kcalls[c].pc = "done"
            /\ kcalls[c].result = "True"
     /\ kcalls[1].ports # kcalls[2].ports)
    => /\ \A c \in KeaCallers :
              \E i \in DOMAIN kea.reservations :
                  kea.reservations[i] =
                      [hw_address |-> kcalls[c].ports[1],
                       option_data |-> kcalls[c].options]
       /\ \A i, j \in DOMAIN kea.reservations :
              i # j => kea.reservations[i].hw_address
                           # kea.reservations[j].hw_address

(***************************************************************************)
(* Claims about the lookup cache (checked under SpecCache)                 *)
(***************************************************************************)
\* The hosts of the fields the cache is computed from: the name ends in
\* _address, no ipmi_ field when bridging is enabled, and the host resolves.
UsableHosts(n) ==
    {HostOf(n.driver_info[name]) :
        name \in {f \in DOMAIN n.driver_info :
                     /\ EndsWithAddress(f)
                     /\ ~(StartsWithIpmi(f) /\ n.bridging)
                     /\ HostOf(n.driver_info[f]) \notin Unresolvable}}

ResolvedAddresses(n) ==
    {ip \in UNION {getaddrinfo(host) : host \in UsableHosts(n)} :
        ~is_loopback(ip)}

OperatorOn(k, v) == Evaluate(k.condition.op, v, k.condition.params)

\* C25: condition multiplicity: with zero matched values 'all' evaluates
\* true and 'any' and 'first' evaluate false; with exactly one matched value
\* v all three modes give the operator's result on v; 'first' evaluates the
\* operator only on the first matched value.
C25_MultiplicityOnFewMatches ==
    \A i \in 1..Len(engine.checks) :
        LET k == engine.checks[i]
            matches == k.check.matches
        IN  /\ matches = <<>> =>
                   k.check.reduced = (k.condition.multiple = "all")
            /\ Len(matches) = 1 =>
                   k.check.reduced = OperatorOn(k, matches[1])
            /\ (k.condition.multiple = "first" /\ matches # <<>>) =>
                   /\ k.check.evaluated = <<matches[1]>>
                   /\ k.check.reduced = OperatorOn(k, matches[1])

\* C25 witness: one evaluation checked an 'all' condition that matched
\* nothing, which held, and a 'first' condition on two matched values of
\* which only the second satisfies the operator, which did not.
C25_Witness ==
    /\ engine.pc = "done"
    /\ \E i \in 1..Len(engine.checks) :
           LET k == engine.checks[i]
           IN  /\ k.condition.multiple = "all"
               /\ k.check.matches = <<>>
               /\ k.check.result
    /\ \E i \in 1..Len(engine.checks) :
           LET k == engine.checks[i]
           IN  /\ k.condition.multiple = "first"
               /\ Len(k.check.matches) = 2
               /\ ~OperatorOn(k, k.check.matches[1])
               /\ OperatorOn(k, k.check.matches[2])
               /\ ~k.check.reduced

\* The actions of the rules decided so far that matched, each with its
\* rule, in the stored order of the rules and of each rule's list.
RECURSIVE StoredOrder(_, _)
StoredOrder(e, r) ==
    IF r = 0
    THEN <<>>
    ELSE StoredOrder(e, r - 1)
         \o (IF e.matched[r]
             THEN [a \in 1..Len(e.rules[r].actions) |->
                       [rule |-> r, action |-> e.rules[r].actions[a]]]
             ELSE <<>>)

\* What was executed, in the order it was executed.
ExecutionOrder(e) ==
    [i \in 1..Len(e.executed) |->
         [rule |-> e.executed[i].rule, action |-> e.executed[i].action]]

\* C26: for a matched rule the actions execute in the stored list order on
\* a shared context, so an action observes the effects of every earlier
\* action of the same rule; and two rules matching the same record execute
\* in their stored order, never reordered.
C26_ActionsRunInStoredOrder ==
    LET stored == StoredOrder(engine, Len(engine.matched))
        ran == ExecutionOrder(engine)
    IN  /\ Len(ran) <= Len(stored)
        /\ ran = SubSeq(stored, 1, Len(ran))
        /\ engine.pc = "done" => ran = stored
        /\ \A i \in 1..Len(engine.executed) :
               LET x == engine.executed[i]
               IN  /\ x.observed = IF i = 1 THEN BlankNode
                                   ELSE engine.executed[i - 1].after
                   /\ (/\ i > 1
                       /\ engine.executed[i - 1].rule = x.rule
                       /\ engine.executed[i - 1].action.action
                              = "set-attribute"
                       /\ x.action.action = "extend-attribute"
                       /\ x.action.path = engine.executed[i - 1].action.path)
                      => x.after[x.action.path]
                             = <<engine.executed[i - 1].action.value,
                                 x.action.value>>
        /\ engine.executed # <<>> =>
               engine.node = engine.executed[Len(engine.executed)].after

\* C26 witness: two rules matched the record; the first ran an action that
\* sets x and then one that reads x, and the second ran after it on what
\* the first left.
C26_Witness ==
    /\ engine.pc = "done"
    /\ Len(engine.rules) = 2
    /\ engine.matched = <<TRUE, TRUE>>
    /\ Len(engine.executed) >= 3
    /\ engine.executed[1].action.action = "set-attribute"
    /\ engine.executed[2].action.action = "extend-attribute"
    /\ engine.executed[2].rule = 1
    /\ engine.executed[2].after["x"] = <<1, 2>>
    /\ engine.executed[3].rule = 2
    /\ engine.executed[3].observed["x"] = <<1, 2>>

====
